---- MODULE Spec2Model ----
(***************************************************************************)
(* Model of the search tools of voice_satellite_llm_tools: the shared,     *)
(* in-process result cache kept in hass.data[DOMAIN]["cache"], the         *)
(* async_call state machine of the image, web, video and Wikipedia tools,  *)
(* their provider adapters, and the setup/cleanup of config entries.       *)
(*                                                                         *)
(* Python values are modelled as follows.                                  *)
(*   - a str that the code inspects (the query) is a sequence of           *)
(*     one-character strings; other strings are TLA+ strings;              *)
(*   - a dict whose set of keys varies is a record with a field `fields`   *)
(*     (the keys present) and one filler-valued field per possible key;    *)
(*   - a raw configuration value is [kind, v]: a number v, a value on      *)
(*     which int() raises, or an absent key;                               *)
(*   - the md5 digest of the cache key is taken to be injective, so a key  *)
(*     is the JSON object that is serialised (sort_keys=True).             *)
(***************************************************************************)
EXTENDS Integers, Sequences, FiniteSets, TLC

(***************************************************************************)
(* Bounds of the model.                                                    *)
(***************************************************************************)
MaxTime == 2        \* the clock runs over 0..MaxTime
MaxItems == 2       \* an upstream answer carries at most MaxItems entries
MaxCalls == 2       \* tool invocations started in one behaviour
MaxCount == 12      \* largest configured or requested result count
MaxToday == 7       \* the current date is one of the days 1..MaxToday

(***************************************************************************)
(* Program constants.                                                      *)
(***************************************************************************)
WEB_MAX_RESULTS == 6        \* base_web_search.py: min(configured, 6)
IMAGE_CEILING == 10         \* schema bound of num_results, image and video
DEFAULT_NUM_RESULTS == 3    \* config.get(CONF_..._NUM_RESULTS, 3)
DEFAULT_CACHE_TTL == 3600   \* const.py

Min(a, b) == IF a <= b THEN a ELSE b

(***************************************************************************)
(* Strings the code inspects: str.lower() and str.strip().                 *)
(***************************************************************************)
Whitespace == {" "}

LowerChar(c) ==
    CASE c = "C" -> "c"
      [] c = "A" -> "a"
      [] c = "T" -> "t"
      [] c = "S" -> "s"
      [] OTHER -> c

Lower(s) == [k \in 1..Len(s) |-> LowerChar(s[k])]

RECURSIVE LStrip(_)
LStrip(s) ==
    IF s # <<>> /\ Head(s) \in Whitespace THEN LStrip(Tail(s)) ELSE s

RECURSIVE RStrip(_)
RStrip(s) ==
    IF s # <<>> /\ s[Len(s)] \in Whitespace
    THEN RStrip(SubSeq(s, 1, Len(s) - 1))
    ELSE s

Strip(s) == RStrip(LStrip(s))

\* The query trimmed but not lower-cased.
NormalizeQueryKeepsCase(q) == Strip(q)

\* query.lower().strip()
NormalizeQuery(q) == Strip(Lower(q))

(***************************************************************************)
(* Tools, configuration and tool arguments.                                *)
(***************************************************************************)
ImageTools == {"brave_image", "searxng_image"}
WebTools == {"brave_web", "searxng_web"}
Tools == ImageTools \cup WebTools \cup {"youtube", "wikipedia"}

ToolType(tool) ==
    CASE tool \in ImageTools -> "image_search"
      [] tool \in WebTools -> "web_search"
      [] tool = "youtube" -> "video_search"
      [] tool = "finnhub" -> "financial"
      [] tool = "weather" -> "weather"
      [] OTHER -> "wikipedia"

\* A raw configuration value: a number, a value int() cannot convert
\* (None, "abc"), or a key that is not in the mapping at all.
Num(n) == [kind |-> "num", v |-> n]
NonNumeric == [kind |-> "bad", v |-> 0]
Unset == [kind |-> "unset", v |-> 0]

\* config.get(key, default)
ConfigGet(raw, default) == IF raw.kind = "unset" THEN Num(default) ELSE raw

\* int(value): ok = FALSE stands for the ValueError/TypeError it raises.
PyInt(raw) == [ok |-> raw.kind = "num", v |-> raw.v]

\* tool_args.get("num_results"): None or an integer.
NoneArg == [given |-> FALSE, v |-> 0]
IntArg(n) == [given |-> TRUE, v |-> n]

(***************************************************************************)
(* _get_num_results of the three tool families.  The result is             *)
(* [ok, v]: ok = FALSE when reading the configured count raised.           *)
(***************************************************************************)
ImageGetNumResults(cfg, explicit) ==
    LET configured_max == PyInt(ConfigGet(cfg.num, DEFAULT_NUM_RESULTS)) IN
    IF ~configured_max.ok THEN [ok |-> FALSE, v |-> 0]
    ELSE IF explicit.given
         THEN [ok |-> TRUE, v |-> Min(explicit.v, configured_max.v)]
         ELSE [ok |-> TRUE, v |-> configured_max.v]

\* The web count resolved like the image count, without the cap of 6.
WebGetNumResultsUncapped(cfg, explicit) ==
    LET configured == PyInt(ConfigGet(cfg.num, DEFAULT_NUM_RESULTS)) IN
    IF ~configured.ok THEN [ok |-> FALSE, v |-> 0]
    ELSE IF explicit.given
         THEN [ok |-> TRUE, v |-> Min(explicit.v, configured.v)]
         ELSE [ok |-> TRUE, v |-> configured.v]

WebGetNumResults(cfg, explicit) ==
    LET configured == PyInt(ConfigGet(cfg.num, DEFAULT_NUM_RESULTS)) IN
    IF ~configured.ok THEN [ok |-> FALSE, v |-> 0]
    ELSE LET configured_max == Min(configured.v, WEB_MAX_RESULTS) IN
         IF explicit.given
         THEN [ok |-> TRUE, v |-> Min(explicit.v, configured_max)]
         ELSE [ok |-> TRUE, v |-> configured_max]

VideoGetNumResults(cfg, explicit) ==
    LET configured_max == PyInt(ConfigGet(cfg.num, DEFAULT_NUM_RESULTS)) IN
    IF ~configured_max.ok THEN [ok |-> FALSE, v |-> 0]
    ELSE IF explicit.given
         THEN [ok |-> TRUE, v |-> Min(explicit.v, configured_max.v)]
         ELSE [ok |-> TRUE, v |-> configured_max.v]

\* The Wikipedia tool takes no num_results and resolves no count.
GetNumResults(tool, cfg, explicit) ==
    CASE tool \in ImageTools -> ImageGetNumResults(cfg, explicit)
      [] tool \in WebTools -> WebGetNumResults(cfg, explicit)
      [] tool = "youtube" -> VideoGetNumResults(cfg, explicit)
      [] OTHER -> [ok |-> TRUE, v |-> 0]

(***************************************************************************)
(* _make_cache_key: the JSON object handed to json.dumps(sort_keys=True);  *)
(* `fields` are the keys of that object.                                   *)
(***************************************************************************)
ImageMakeCacheKey(query, num_results) ==
    [fields |-> {"q", "n"}, type |-> "", q |-> NormalizeQuery(query),
     n |-> num_results, d |-> ""]

\* The web key built like the image key, without the "type" member.
WebMakeCacheKeyUntyped(query, num_results) ==
    [fields |-> {"q", "n"}, type |-> "",
     q |-> NormalizeQuery(query), n |-> num_results, d |-> ""]

WebMakeCacheKey(query, num_results) ==
    [fields |-> {"type", "q", "n"}, type |-> "web",
     q |-> NormalizeQuery(query), n |-> num_results, d |-> ""]

VideoMakeCacheKey(query, num_results) ==
    [fields |-> {"type", "q", "n"}, type |-> "video",
     q |-> NormalizeQuery(query), n |-> num_results, d |-> ""]

WikipediaMakeCacheKey(cfg, query) ==
    [fields |-> {"type", "q", "d"}, type |-> "wikipedia",
     q |-> NormalizeQuery(query), n |-> 0, d |-> cfg.detail]

MakeCacheKey(tool, cfg, query, num_results) ==
    CASE tool \in ImageTools -> ImageMakeCacheKey(query, num_results)
      [] tool \in WebTools -> WebMakeCacheKey(query, num_results)
      [] tool = "youtube" -> VideoMakeCacheKey(query, num_results)
      [] OTHER -> WikipediaMakeCacheKey(cfg, query)

(***************************************************************************)
(* _cache_get and _cache_set, identical in the four tool classes.          *)
(* store is hass.data[DOMAIN]["cache"] ({} when DOMAIN or "cache" is       *)
(* missing), a function from keys to [ts, data].                           *)
(***************************************************************************)
\* time.time() - entry["ts"] > ttl
Expired(entry, ttl, t) == t - entry.ts > ttl

\* _cache_get with a sliding expiration: a hit restarts the entry's ttl.
CacheGetSliding(store, key, cfg, t) ==
    IF key \notin DOMAIN store
    THEN [raised |-> FALSE, hit |-> FALSE, store |-> store]
    ELSE LET ttl == PyInt(ConfigGet(cfg.ttl, DEFAULT_CACHE_TTL)) IN
         IF ~ttl.ok
         THEN [raised |-> TRUE, hit |-> FALSE, store |-> store]
         ELSE IF Expired(store[key], ttl.v, t)
              THEN [raised |-> FALSE, hit |-> FALSE,
                    store |-> [k \in DOMAIN store \ {key} |-> store[k]]]
              ELSE [raised |-> FALSE, hit |-> TRUE,
                    store |-> [store EXCEPT ![key].ts = t]]

\* _cache_get with the expiry test written >= instead of >.
CacheGetExpiresEarly(store, key, cfg, t) ==
    IF key \notin DOMAIN store
    THEN [raised |-> FALSE, hit |-> FALSE, store |-> store]
    ELSE LET ttl == PyInt(ConfigGet(cfg.ttl, DEFAULT_CACHE_TTL)) IN
         IF ~ttl.ok
         THEN [raised |-> TRUE, hit |-> FALSE, store |-> store]
         ELSE IF t - store[key].ts >= ttl.v
              THEN [raised |-> FALSE, hit |-> FALSE,
                    store |-> [k \in DOMAIN store \ {key} |-> store[k]]]
              ELSE [raised |-> FALSE, hit |-> TRUE, store |-> store]

\* The outcome of _cache_get: raised (int(ttl) failed), the payload or
\* None, and the store it leaves behind.
CacheGet(store, key, cfg, t) ==
    IF key \notin DOMAIN store
    THEN [raised |-> FALSE, hit |-> FALSE, store |-> store]
    ELSE LET ttl == PyInt(ConfigGet(cfg.ttl, DEFAULT_CACHE_TTL)) IN
         IF ~ttl.ok
         THEN [raised |-> TRUE, hit |-> FALSE, store |-> store]
         ELSE IF Expired(store[key], ttl.v, t)
              THEN [raised |-> FALSE, hit |-> FALSE,
                    store |-> [k \in DOMAIN store \ {key} |-> store[k]]]
              ELSE [raised |-> FALSE, hit |-> TRUE, store |-> store]

\* cache[key] = {"ts": time.time(), "data": data}
\* A store that keeps the entry it already holds under the key.
CacheSetKeepsFirst(store, key, data, t) ==
    [k \in DOMAIN store \cup {key} |->
        IF k \in DOMAIN store THEN store[k]
        ELSE [ts |-> t, data |-> data]]

\* _cache_set: cache[key] = {"data": data, "ts": time.time()}
CacheSet(store, key, data, t) ==
    [k \in DOMAIN store \cup {key} |->
        IF k = key THEN [ts |-> t, data |-> data] ELSE store[k]]

(***************************************************************************)
(* Upstream answers and the provider adapters that map them.               *)
(* An upstream entry is modelled by the string the adapter reads as its    *)
(* direct resource URL (Brave: properties.url, SearXNG: img_src / url),    *)
(* the video id (YouTube) or the article title (Wikipedia).                *)
(***************************************************************************)
RawItems == {"http://a"}

\* url.startswith("http"), on the strings of the model
StartsWithHttp(u) == u \in {"http://a", "https://www.youtube.com/watch?v="}

RECURSIVE SeqsUpTo(_)
SeqsUpTo(n) ==
    IF n = 0 THEN {<<>>}
    ELSE LET shorter == SeqsUpTo(n - 1) IN
         shorter \cup {Append(s, x) : s \in {t \in shorter : Len(t) = n - 1},
                                      x \in RawItems}

UpstreamLists == SeqsUpTo(MaxItems)

\* What one HTTP request can come back with: a 200 answer carrying a list,
\* a non-200 status, or an exception raised by the transport.
Answers ==
    {[status |-> "ok", items |-> l] : l \in UpstreamLists}
      \cup {[status |-> st, items |-> <<>>] :
                st \in {"http_error", "transport_error"}}

\* An intermediate result item.
Item(url, id, duration) == [url |-> url, id |-> id, duration |-> duration]

\* BraveImageSearchTool / BraveWebSearchTool: every upstream entry is kept.
BraveResults(items, num_results) ==
    [k \in 1..Len(items) |-> Item(items[k], "", "")]

\* SearXNG: stop at num_results, skip entries without an http URL.
RECURSIVE SearXNGLoop(_, _, _)
SearXNGLoop(items, num_results, results) ==
    IF items = <<>> THEN results
    ELSE IF Len(results) >= num_results THEN results
    ELSE IF Head(items) = "" \/ ~StartsWithHttp(Head(items))
         THEN SearXNGLoop(Tail(items), num_results, results)
         ELSE SearXNGLoop(Tail(items), num_results,
                          Append(results, Item(Head(items), "", "")))

SearXNGResults(items, num_results) == SearXNGLoop(items, num_results, <<>>)

AdapterResults(tool, items, num_results) ==
    IF tool \in {"brave_image", "brave_web"}
    THEN BraveResults(items, num_results)
    ELSE SearXNGResults(items, num_results)

\* YouTubeVideoSearchTool._search_videos, lines 184-213: one result per
\* first-stage item; duration comes from details_map when the id is in it.
YouTubeResults(items, detailed_ids) ==
    [k \in 1..Len(items) |->
        Item("https://www.youtube.com/watch?v=", items[k],
             IF items[k] \in detailed_ids THEN "PT1M" ELSE "")]

\* The credential or server URL the adapter requires ("" when missing).
RequiresCredential(tool) == tool # "wikipedia"

(***************************************************************************)
(* Responses.  `fields` are the keys of the returned dict.                 *)
(***************************************************************************)
NoResp ==
    [fields |-> {}, query |-> <<>>, num_results |-> 0, hint |-> FALSE,
     results |-> <<>>, summary |-> "",
     query_type |-> "", forecast_type |-> ""]

ErrorResponse == [NoResp EXCEPT !.fields = {"error"}]

ImageFormatResponse(results, query, auto_display) ==
    [fields |-> {"query", "num_results", "auto_display", "results",
                 "instruction"},
     query |-> query, num_results |-> Len(results), hint |-> auto_display,
     results |-> results, summary |-> "",
     query_type |-> "", forecast_type |-> ""]

ImageEmptyResponse(query) ==
    [fields |-> {"query", "results", "auto_display", "message"},
     query |-> query, num_results |-> 0, hint |-> FALSE,
     results |-> <<>>, summary |-> "",
     query_type |-> "", forecast_type |-> ""]

WebFormatResponse(results, query) ==
    [fields |-> {"source", "query", "num_results", "results",
                 "featured_image", "instruction"},
     query |-> query, num_results |-> Len(results), hint |-> FALSE,
     results |-> results, summary |-> "",
     query_type |-> "", forecast_type |-> ""]

WebEmptyResponse(query) ==
    [fields |-> {"source", "query", "results", "featured_image", "message"},
     query |-> query, num_results |-> 0, hint |-> FALSE,
     results |-> <<>>, summary |-> "",
     query_type |-> "", forecast_type |-> ""]

VideoFormatResponse(results, query, auto_play) ==
    [fields |-> {"source", "query", "num_results", "auto_play", "results",
                 "instruction"},
     query |-> query, num_results |-> Len(results), hint |-> auto_play,
     results |-> results, summary |-> "",
     query_type |-> "", forecast_type |-> ""]

VideoEmptyResponse(query) ==
    [fields |-> {"source", "query", "results", "auto_play", "message"},
     query |-> query, num_results |-> 0, hint |-> FALSE,
     results |-> <<>>, summary |-> "",
     query_type |-> "", forecast_type |-> ""]

WikipediaResponse(query, extract) ==
    [fields |-> {"source", "query", "title", "url", "summary",
                 "featured_image", "instruction"},
     query |-> query, num_results |-> 0, hint |-> FALSE,
     results |-> <<>>, summary |-> extract,
     query_type |-> "", forecast_type |-> ""]

WikipediaEmptyResponse(query) ==
    [fields |-> {"source", "query", "message"},
     query |-> query, num_results |-> 0, hint |-> FALSE,
     results |-> <<>>, summary |-> "",
     query_type |-> "", forecast_type |-> ""]

FormatResponse(tool, results, query, hint) ==
    CASE tool \in ImageTools -> ImageFormatResponse(results, query, hint)
      [] tool \in WebTools -> WebFormatResponse(results, query)
      [] OTHER -> VideoFormatResponse(results, query, hint)

EmptyResponse(tool, query) ==
    CASE tool \in ImageTools -> ImageEmptyResponse(query)
      [] tool \in WebTools -> WebEmptyResponse(query)
      [] tool = "youtube" -> VideoEmptyResponse(query)
      [] OTHER -> WikipediaEmptyResponse(query)

\* The cached value: a list of result items (image, web, video) or the
\* response dict (Wikipedia).
ListPayload(results) == [kind |-> "list", list |-> results, doc |-> NoResp]
DocPayload(response) == [kind |-> "doc", list |-> <<>>, doc |-> response]

\* A cache hit that formats the entry without the call's hint.
HitResponseDropsHint(tool, payload, query, hint) ==
    IF tool = "wikipedia" THEN payload.doc
    ELSE FormatResponse(tool, payload.list, query, FALSE)

\* The response built on a cache hit.
HitResponse(tool, payload, query, hint) ==
    IF tool = "wikipedia" THEN payload.doc
    ELSE FormatResponse(tool, payload.list, query, hint)

(***************************************************************************)
(* Inputs of the model.                                                    *)
(***************************************************************************)
\* "cats" and " CATS"
Queries == {<<"c", "a", "t", "s">>, <<" ", "C", "A", "T", "S">>}

ExplicitArgs == {NoneArg, IntArg(1)}

CfgNums == {Num(2), NonNumeric}
CfgTtls == {Num(0), Num(1), NonNumeric}

\* The configuration of a config entry: config = {**entry.data, **options}.
\* tool is the tool class selected by tool_type and provider, num the
\* provider's *_num_results, ttl cache_ttl, cred the API key or server URL
\* being non-empty, detail wikipedia_detail.
Configs ==
    {c \in [tool : Tools, num : CfgNums, ttl : CfgTtls, cred : BOOLEAN,
            detail : {"concise", "detailed"}] :
        /\ c.tool # "wikipedia" => c.detail = "concise"
        /\ c.tool = "wikipedia" => c.cred /\ c.num = Num(2)
        \* at most one setting is off its usual value
        /\ Cardinality({f \in {"num", "ttl", "cred", "detail"} :
                           \/ f = "num" /\ c.num # Num(2)
                           \/ f = "ttl" /\ c.ttl # Num(1)
                           \/ f = "cred" /\ ~c.cred
                           \/ f = "detail" /\ c.detail # "concise"}) <= 1}

NoConfig ==
    [tool |-> "wikipedia", num |-> Unset, ttl |-> Unset, cred |-> FALSE,
     detail |-> "concise"]

NoKey == [fields |-> {}, type |-> "", q |-> <<>>, n |-> 0, d |-> ""]

(***************************************************************************)
(* State.                                                                  *)
(***************************************************************************)
VARIABLES
    now,         \* time.time()
    domain,      \* DOMAIN in hass.data
    hasCache,    \* "cache" in hass.data[DOMAIN]
    hasEntries,  \* "entries" in hass.data[DOMAIN]
    cache,       \* hass.data[DOMAIN]["cache"]: key -> [ts, data]
    entries,     \* hass.data[DOMAIN]["entries"]: entry_id -> config
    apis,        \* the LLM runtime's registry: tool type -> [entry, cfg]
    inv,         \* the tool invocations (coroutines of async_call)
    calls,       \* the number of invocations started so far
    stored       \* the host's config entries: entry_id -> data and options

vars ==
    <<now, domain, hasCache, hasEntries, cache, entries, apis, inv, calls,
      stored>>

hassVars == <<domain, hasCache, hasEntries, cache, entries>>

EmptyMap == [k \in {} |-> 0]

\* A date is its proleptic ordinal (date.toordinal()); None has some FALSE.
NoDate == [some |-> FALSE, date |-> 0]
SomeDate(d) == [some |-> TRUE, date |-> d]

\* hass.states.get(entity_id): None, or a state with supported_features.
NoState == [exists |-> FALSE, features |-> 0]

\* What a weather call has read and done so far.
NoWeather ==
    [range |-> "", today |-> 0, target |-> NoDate, daily_state |-> NoState,
     hourly_state |-> NoState, fetches |-> <<>>, entries |-> <<>>]

\* A coroutine of async_call: pc is where it is suspended.
\*   pc       "idle", "search", "details", "summary", "intro", "done"
\*   outcome  "none", "returned", "raised" (an exception reached the
\*            caller), "cancelled" (CancelledError reached the caller)
\*   http     the number of upstream HTTP requests issued so far
\*   adapter  the provider adapter was entered
\*   hit      the response was built from a cache entry
\*   evicted / wrote   the call popped / stored an entry of the cache
\*   fault    what raised inside the try block: "none", "lookup"
\*            (_cache_get), "config" or "upstream" (the adapter),
\*            "no_quote" / "no_rate" (the financial adapter found nothing)
\* and, for the financial tool (pc "crypto_first", "quote", "crypto_last",
\* "profile", "rates"),
\*   symbol, base   the normalized symbol and its crypto base
\*   requests       the upstream sources contacted so far, in order
\*   from_currency, to_currency   the normalized currency codes
\*   rates          the currencies of the rate table a 200 answer held
\* and, for the weather tool (pc "forecast"),
\*   wx             the range, the dates, the entity states read and the
\*                  forecasts fetched
IdleInvocation ==
    [pc |-> "idle", outcome |-> "none", tool |-> "wikipedia",
     cfg |-> NoConfig, query |-> <<>>, explicit |-> NoneArg, hint |-> FALSE,
     count |-> 0, key |-> NoKey, http |-> 0, adapter |-> FALSE,
     hit |-> FALSE, evicted |-> FALSE, wrote |-> FALSE, fault |-> "none",
     items |-> <<>>, results |-> <<>>, resp |-> NoResp,
     query_type |-> "", symbol |-> <<>>, base |-> <<>>, requests |-> <<>>,
     from_currency |-> <<>>, to_currency |-> <<>>, rates |-> {},
     wx |-> NoWeather]

Init ==
    /\ now = 0
    \* async_setup: hass.data.setdefault(DOMAIN, {"cache": {}, "entries": {}})
    /\ domain = TRUE
    /\ hasCache = TRUE
    /\ hasEntries = TRUE
    /\ cache = EmptyMap
    /\ entries = EmptyMap
    /\ apis = EmptyMap
    /\ inv = [i \in {"i1"} |-> IdleInvocation]
    /\ calls = 0
    /\ stored \in [{"e1"} -> Configs]

Tick ==
    /\ now < MaxTime
    /\ now' = now + 1
    /\ UNCHANGED <<domain, hasCache, hasEntries, cache, entries, apis, inv,
                   calls, stored>>

(***************************************************************************)
(* llm_api.py: setup_llm_api and cleanup_llm_api.                          *)
(***************************************************************************)
\* Whether setup_llm_api registers an API for this configuration.
ApiEnabled(c) == IF c.tool \in {"youtube", "weather"} THEN c.cred ELSE TRUE

MapPut(f, k, v) == [x \in DOMAIN f \cup {k} |-> IF x = k THEN v ELSE f[x]]
MapDrop(f, ks) == [x \in DOMAIN f \ ks |-> f[x]]

\* __init__.py async_setup_entry: config = {**entry.data, **entry.options}
SetupLlmApi(e) ==
    LET c == stored[e]
        type == ToolType(c.tool)
        \* after hass.data.setdefault(DOMAIN, {"cache": {}, "entries": {}})
        entriesKey == IF domain THEN hasEntries ELSE TRUE
    IN
    /\ e \notin DOMAIN entries
    /\ domain' = TRUE
    /\ hasCache' = (IF domain THEN hasCache ELSE TRUE)
    /\ hasEntries' = entriesKey
    /\ cache' = cache
    /\ IF ~ApiEnabled(c)
       THEN UNCHANGED <<apis, entries>>
       ELSE IF type \in DOMAIN apis
       THEN \* llm.async_register_api raises: the id is already registered
            UNCHANGED <<apis, entries>>
       ELSE /\ apis' = MapPut(apis, type, [entry |-> e, cfg |-> c])
            /\ IF entriesKey
               THEN entries' = MapPut(entries, e, c)
               ELSE \* hass.data[DOMAIN]["entries"] raises KeyError
                    UNCHANGED entries
    /\ UNCHANGED <<now, inv, calls, stored>>

\* cleanup_llm_api emptying the cache on every unload.
CleanupLlmApiClearsCache(e) ==
    /\ domain
    /\ LET recorded == hasEntries /\ e \in DOMAIN entries
           left == IF recorded THEN MapDrop(entries, {e}) ELSE entries
       IN
       /\ apis' = (IF recorded
                   THEN MapDrop(apis, {t \in DOMAIN apis : apis[t].entry = e})
                   ELSE apis)
       /\ cache' = EmptyMap
       /\ IF ~hasEntries \/ DOMAIN left = {}
          THEN /\ domain' = FALSE
               /\ hasCache' = FALSE
               /\ hasEntries' = FALSE
               /\ entries' = EmptyMap
          ELSE /\ entries' = left
               /\ UNCHANGED <<domain, hasCache, hasEntries>>
    /\ UNCHANGED <<now, inv, calls, stored>>

\* cleanup_llm_api, lines 360-376.
CleanupLlmApi(e) ==
    /\ domain
    /\ LET recorded == hasEntries /\ e \in DOMAIN entries
           left == IF recorded THEN MapDrop(entries, {e}) ELSE entries
       IN
       /\ apis' = (IF recorded
                   THEN MapDrop(apis, {t \in DOMAIN apis : apis[t].entry = e})
                   ELSE apis)
       /\ IF ~hasEntries \/ DOMAIN left = {}
          THEN \* hass.data.pop(DOMAIN, None)
               /\ domain' = FALSE
               /\ hasCache' = FALSE
               /\ hasEntries' = FALSE
               /\ cache' = EmptyMap
               /\ entries' = EmptyMap
          ELSE /\ entries' = left
               /\ UNCHANGED <<domain, hasCache, cache, hasEntries>>
    /\ UNCHANGED <<now, inv, calls, stored>>

(***************************************************************************)
(* async_call of the search tools.  One action is one run of the           *)
(* coroutine between two suspension points (the upstream HTTP requests).   *)
(***************************************************************************)
Returned(r, response) ==
    [r EXCEPT !.pc = "done", !.outcome = "returned", !.resp = response]

Raised(r) == [r EXCEPT !.pc = "done", !.outcome = "raised"]

\* An except clause that adds the error to a response with results.
FailedKeepsResults(r, fault) ==
    Returned([r EXCEPT !.fault = fault],
             [ErrorResponse EXCEPT !.fields = {"error", "query", "results"}])

\* return {"error": f"... failed: {e!s}"} of the except clause
Failed(r, fault) == Returned([r EXCEPT !.fault = fault], ErrorResponse)

\* self._cache_set(cache_key, data) on the shared state
StoreWrite(key, data) ==
    /\ domain' = TRUE
    /\ hasCache' = TRUE
    /\ hasEntries' = (IF domain THEN hasEntries ELSE FALSE)
    /\ cache' = CacheSet(cache, key, data, now)
    /\ UNCHANGED entries

\* The call of async_call up to its first suspension: lines 98-115 of
\* base_image_search.py (base_web_search.py 101-116, youtube_video_search.py
\* 98-150, wikipedia_web_search.py 54-80).
StartCall(i, type, query, explicit, hint) ==
    /\ inv[i].pc \in {"idle", "done"}
    /\ calls < MaxCalls
    /\ calls' = calls + 1
    /\ type \in DOMAIN apis
    /\ LET cfg == apis[type].cfg
           tool == cfg.tool
           n == GetNumResults(tool, cfg, explicit)
           r0 == [IdleInvocation EXCEPT !.tool = tool, !.cfg = cfg,
                                        !.query = query,
                                        !.explicit = explicit, !.hint = hint]
       IN
       IF ~n.ok
       THEN \* int(...) raised before the try block was entered
            /\ inv' = [inv EXCEPT ![i] = Raised(r0)]
            /\ UNCHANGED hassVars
       ELSE
       LET key == MakeCacheKey(tool, cfg, query, n.v)
           got == CacheGet(cache, key, cfg, now)
           r1 == [r0 EXCEPT !.count = n.v, !.key = key,
                            !.evicted = (got.store # cache)]
       IN
       /\ cache' = got.store
       /\ UNCHANGED <<domain, hasCache, hasEntries, entries>>
       /\ IF got.raised
          THEN inv' = [inv EXCEPT ![i] = Failed(r1, "lookup")]
          ELSE IF got.hit
          THEN inv' = [inv EXCEPT ![i] =
                          Returned([r1 EXCEPT !.hit = TRUE],
                                   HitResponse(tool, cache[key].data,
                                               query, hint))]
          ELSE IF RequiresCredential(tool) /\ ~cfg.cred
          THEN \* RuntimeError("... not configured")
               inv' = [inv EXCEPT ![i] =
                          Failed([r1 EXCEPT !.adapter = TRUE], "config")]
          ELSE inv' = [inv EXCEPT ![i] =
                          [r1 EXCEPT !.pc = "search", !.adapter = TRUE,
                                     !.http = 1]]
    /\ UNCHANGED <<now, apis, stored>>

\* async_call without the `if not results` and status guards before
\* _cache_set: whatever came back is cached.
SearchCompletionCachesAll(r, ans) ==
    LET results == IF ans.status = "ok"
                   THEN AdapterResults(r.tool, ans.items, r.count)
                   ELSE <<>>
    IN
    IF ans.status # "ok"
    THEN [rec |-> Failed(r, "upstream"), write |-> TRUE]
    ELSE IF results = <<>>
    THEN [rec |-> Returned(r, EmptyResponse(r.tool, r.query)),
          write |-> TRUE]
    ELSE [rec |-> Returned([r EXCEPT !.results = results],
                           FormatResponse(r.tool, results, r.query, r.hint)),
          write |-> TRUE]

\* Image and web tools, after the adapter's request came back (lines
\* 115-130 of base_image_search.py, 116-132 of base_web_search.py): what
\* is returned and whether the results are cached.
SearchCompletion(r, ans) ==
    IF ans.status # "ok"
    THEN [rec |-> Failed(r, "upstream"), write |-> FALSE]
    ELSE LET results == AdapterResults(r.tool, ans.items, r.count) IN
         IF results = <<>>
         THEN [rec |-> Returned(r, EmptyResponse(r.tool, r.query)),
               write |-> FALSE]
         ELSE [rec |-> Returned([r EXCEPT !.results = results],
                                FormatResponse(r.tool, results, r.query,
                                               r.hint)),
               write |-> TRUE]

\* The first request comes back: image and web adapters finish here.
SearchReturn(i, ans) ==
    /\ inv[i].pc = "search"
    /\ inv[i].tool \in ImageTools \cup WebTools
    /\ LET c == SearchCompletion(inv[i], ans) IN
       /\ IF c.write
          THEN StoreWrite(inv[i].key, ListPayload(c.rec.results))
          ELSE UNCHANGED hassVars
       /\ inv' = [inv EXCEPT ![i] = [c.rec EXCEPT !.wrote = c.write]]
    /\ UNCHANGED <<now, apis, calls, stored>>

\* YouTube, stage 1 (lines 150-171): the search request comes back.
VideoSearchReturn(i, ans) ==
    /\ inv[i].pc = "search"
    /\ inv[i].tool = "youtube"
    /\ LET r == inv[i] IN
       IF ans.status # "ok"
       THEN inv' = [inv EXCEPT ![i] = Failed(r, "upstream")]
       ELSE IF ans.items = <<>>
       THEN inv' = [inv EXCEPT ![i] =
                       Returned(r, EmptyResponse(r.tool, r.query))]
       ELSE inv' = [inv EXCEPT ![i] =
                       [r EXCEPT !.pc = "details", !.items = ans.items,
                                 !.http = r.http + 1]]
    /\ UNCHANGED <<now, apis, calls, stored>>
    /\ UNCHANGED hassVars

\* YouTube, stage 2 (lines 171-213, then 117-127): what is returned when
\* the details request comes back; covered tells whether a 200 answer
\* lists the videos.
VideoCompletion(r, status, covered) ==
    IF status = "transport_error"
    THEN [rec |-> Failed(r, "upstream"), write |-> FALSE]
    ELSE LET ids == IF status = "ok" /\ covered
                    THEN {r.items[k] : k \in 1..Len(r.items)}
                    ELSE {}
             results == YouTubeResults(r.items, ids)
         IN
         IF results = <<>>
         THEN [rec |-> Returned(r, EmptyResponse(r.tool, r.query)),
               write |-> FALSE]
         ELSE [rec |-> Returned([r EXCEPT !.results = results],
                                FormatResponse(r.tool, results, r.query,
                                               r.hint)),
               write |-> TRUE]

VideoDetailsReturn(i, status, covered) ==
    /\ inv[i].pc = "details"
    /\ LET c == VideoCompletion(inv[i], status, covered) IN
       /\ IF c.write
          THEN StoreWrite(inv[i].key, ListPayload(c.rec.results))
          ELSE UNCHANGED hassVars
       /\ inv' = [inv EXCEPT ![i] = [c.rec EXCEPT !.wrote = c.write]]
    /\ UNCHANGED <<now, apis, calls, stored>>

\* Wikipedia, step 1 (lines 76-99): the search request comes back; on a
\* non-empty list _fetch_best_summary requests the first title.
WikipediaSearchReturn(i, ans) ==
    /\ inv[i].pc = "search"
    /\ inv[i].tool = "wikipedia"
    /\ LET r == inv[i] IN
       IF ans.status # "ok"
       THEN inv' = [inv EXCEPT ![i] = Failed(r, "upstream")]
       ELSE IF ans.items = <<>>
       THEN inv' = [inv EXCEPT ![i] =
                       Returned(r, WikipediaEmptyResponse(r.query))]
       ELSE inv' = [inv EXCEPT ![i] =
                       [r EXCEPT !.pc = "summary", !.items = ans.items,
                                 !.http = r.http + 1]]
    /\ UNCHANGED <<now, apis, calls, stored>>
    /\ UNCHANGED hassVars

\* Wikipedia, lines 127-142: the response is built, cached and returned.
WikipediaCompletion(r, extract) ==
    [rec |-> Returned(r, WikipediaResponse(r.query, extract)),
     write |-> TRUE]

\* Wikipedia, _fetch_best_summary (lines 148-181) and lines 101-142: the
\* summary request of the current title (the head of items) comes back.
\* status is "ok", "disambiguation", "http_error" or "transport_error".
WikipediaSummaryReturn(i, status) ==
    /\ inv[i].pc = "summary"
    /\ LET r == inv[i] IN
       IF status # "ok"
       THEN \* continue with the next title, or return None
            /\ IF Len(r.items) > 1
               THEN inv' = [inv EXCEPT ![i] =
                               [r EXCEPT !.items = Tail(r.items),
                                         !.http = r.http + 1]]
               ELSE inv' = [inv EXCEPT ![i] =
                               Returned(r, WikipediaEmptyResponse(r.query))]
            /\ UNCHANGED hassVars
       ELSE IF r.cfg.detail = "detailed"
       THEN /\ inv' = [inv EXCEPT ![i] =
                          [r EXCEPT !.pc = "intro", !.http = r.http + 1]]
            /\ UNCHANGED hassVars
       ELSE LET c == WikipediaCompletion(r, "extract") IN
            /\ IF c.write
               THEN StoreWrite(r.key, DocPayload(c.rec.resp))
               ELSE UNCHANGED hassVars
            /\ inv' = [inv EXCEPT ![i] = [c.rec EXCEPT !.wrote = c.write]]
    /\ UNCHANGED <<now, apis, calls, stored>>

\* Wikipedia, _fetch_full_intro (lines 183-210) and lines 121-142: any
\* failure of the request falls back to the summary's extract.
WikipediaIntroReturn(i, status) ==
    /\ inv[i].pc = "intro"
    /\ LET r == inv[i]
           c == WikipediaCompletion(r, IF status = "ok" THEN "intro"
                                                        ELSE "extract")
       IN
       /\ IF c.write
          THEN StoreWrite(r.key, DocPayload(c.rec.resp))
          ELSE UNCHANGED hassVars
       /\ inv' = [inv EXCEPT ![i] = [c.rec EXCEPT !.wrote = c.write]]
    /\ UNCHANGED <<now, apis, calls, stored>>

\* A cancellation handled like a result: the partial data is cached.
CancelledCachesPartial(r) ==
    [rec |-> [r EXCEPT !.pc = "done", !.outcome = "cancelled"],
     write |-> TRUE]

\* The caller cancels the task while it waits for an upstream request:
\* asyncio.CancelledError is a BaseException, so no `except Exception`
\* clause of the tools catches it and it reaches the caller.
Cancelled(r) ==
    [rec |-> [r EXCEPT !.pc = "done", !.outcome = "cancelled"],
     write |-> FALSE]

Cancel(i) ==
    /\ inv[i].pc \in {"search", "details", "summary", "intro"}
    /\ LET c == Cancelled(inv[i]) IN
       /\ IF c.write
          THEN StoreWrite(inv[i].key, ListPayload(inv[i].items))
          ELSE UNCHANGED hassVars
       /\ inv' = [inv EXCEPT ![i] = [c.rec EXCEPT !.wrote = c.write]]
    /\ UNCHANGED <<now, apis, calls, stored>>

\* The arguments the tool's schema admits.
ArgsOf(type) ==
    [query : Queries,
     explicit : IF type = "wikipedia" THEN {NoneArg} ELSE ExplicitArgs,
     hint : IF type \in {"image_search", "video_search"}
            THEN BOOLEAN ELSE {FALSE}]

HttpStatuses == {"ok", "http_error", "transport_error"}

\* Any step of the coroutine of invocation i after its first suspension.
Resume(i) ==
    \/ \E ans \in Answers : SearchReturn(i, ans)
    \/ \E ans \in Answers : VideoSearchReturn(i, ans)
    \/ \E st \in HttpStatuses, covered \in BOOLEAN :
          VideoDetailsReturn(i, st, covered)
    \/ \E ans \in Answers : WikipediaSearchReturn(i, ans)
    \/ \E st \in HttpStatuses \cup {"disambiguation"} :
          WikipediaSummaryReturn(i, st)
    \/ \E st \in HttpStatuses : WikipediaIntroReturn(i, st)

Call(i) ==
    \E type \in DOMAIN apis : \E a \in ArgsOf(type) :
        StartCall(i, type, a.query, a.explicit, a.hint)

\* One config entry and one invocation at a time: every tool, the calls
\* following one another.
Next ==
    \/ Tick
    \/ SetupLlmApi("e1")
    \/ CleanupLlmApi("e1")
    \/ Call("i1")
    \/ Resume("i1")
    \/ Cancel("i1")

Spec == Init /\ [][Next]_vars

TypeOK ==
    /\ now \in 0..MaxTime
    /\ domain \in BOOLEAN
    /\ \A i \in DOMAIN inv : inv[i].pc \in
          {"idle", "search", "details", "summary", "intro", "done",
           "crypto_first", "quote", "crypto_last", "profile", "rates",
           "forecast"}

(***************************************************************************)
(* Properties.                                                             *)
(***************************************************************************)
Suspended == {"search", "details", "summary", "intro"}

\* Invocation i starts in this step.
Starts(i) == calls' = calls + 1 /\ inv'[i] # inv[i]

\* The ttl an invocation record reads from its configuration.
TtlOf(r) == PyInt(ConfigGet(r.cfg.ttl, DEFAULT_CACHE_TTL))

\* The store holds an unexpired entry under the key of the call that
\* starts in this step.
FreshEntryFor(r) ==
    /\ r.key \in DOMAIN cache
    /\ TtlOf(r).ok
    /\ now - cache[r.key].ts <= TtlOf(r).v

\* C1: a call that finds an unexpired entry under its key returns at once
\* a response built from that entry; the provider adapter is not entered
\* and no upstream HTTP request is issued.
C1_CacheHitBypassesAdapter ==
    [][\A i \in DOMAIN inv :
          (Starts(i) /\ FreshEntryFor(inv'[i])) =>
              /\ inv'[i].pc = "done"
              /\ inv'[i].outcome = "returned"
              /\ ~inv'[i].adapter
              /\ inv'[i].http = 0
              /\ inv'[i].resp =
                    HitResponse(inv'[i].tool, cache[inv'[i].key].data,
                                inv'[i].query, inv'[i].hint)
              /\ cache' = cache]_vars

\* A call of each tool family was answered from the cache.
C1_Witness ==
    \E i \in DOMAIN inv :
        /\ inv[i].pc = "done"
        /\ inv[i].hit
        /\ inv[i].http = 0
        /\ inv[i].key \in DOMAIN cache
        /\ "instruction" \in inv[i].resp.fields

\* What _cache_get does for the call starting in this step, when the store
\* holds an entry under its key: the payload is returned exactly when
\* now - ts <= ttl, and otherwise that entry, and only it, is removed.
ReadsByTtl ==
    \A i \in DOMAIN inv :
        (Starts(i) /\ inv'[i].key \in DOMAIN cache /\ TtlOf(inv'[i]).ok) =>
            LET r == inv'[i]
                age == now - cache[r.key].ts
            IN
            /\ r.hit <=> age <= TtlOf(r).v
            /\ r.hit =>
                  /\ r.resp = HitResponse(r.tool, cache[r.key].data,
                                          r.query, r.hint)
                  /\ cache' = cache
            /\ age > TtlOf(r).v =>
                  /\ r.key \notin DOMAIN cache'
                  /\ cache' = [k \in DOMAIN cache \ {r.key} |-> cache[k]]

\* Entry k leaves the store in this step through an expired read of k.
RemovedByOwnRead(k) ==
    \E i \in DOMAIN inv :
        /\ Starts(i)
        /\ inv'[i].key = k
        /\ TtlOf(inv'[i]).ok
        /\ now - cache[k].ts > TtlOf(inv'[i]).v

\* C2 as stated: reads follow the ttl, and an entry leaves the store only
\* by an expired read of its own key.
C2_OnlyReadsRemove ==
    [][/\ ReadsByTtl
       /\ \A k \in DOMAIN cache :
             k \notin DOMAIN cache' => RemovedByOwnRead(k)]_vars

\* C2, amended: reads follow the ttl, and an entry leaves the store only
\* by an expired read of its own key or when cleanup_llm_api pops
\* hass.data[DOMAIN] after the last config entry was removed.
C2_ReadsRemoveOrCleanup ==
    [][/\ ReadsByTtl
       /\ \A k \in DOMAIN cache :
             k \notin DOMAIN cache' =>
                 \/ RemovedByOwnRead(k)
                 \/ domain /\ ~domain' /\ DOMAIN entries' = {}]_vars

\* An expired entry was evicted by a read of its key.
C2_Witness ==
    \E i \in DOMAIN inv :
        /\ inv[i].evicted
        /\ ~inv[i].hit
        /\ inv[i].pc = "search"
        /\ inv[i].key \notin DOMAIN cache

\* The "no results" outcome: a response with a message field.
IsEmptyResponse(resp) == "message" \in resp.fields

\* Invocation i returns in this step from a suspension.
Completes(i) == inv[i].pc \in Suspended /\ inv'[i].pc = "done"

SameInputs(r1, r2) ==
    /\ r1.tool = r2.tool
    /\ r1.cfg = r2.cfg
    /\ r1.query = r2.query
    /\ r1.explicit = r2.explicit
    /\ r1.hint = r2.hint

\* The lookup of the call starting in this step changes the store at most
\* by evicting the expired entry under the call's own key.
LookupOnlyEvictsOwn(i) ==
    Starts(i) =>
        /\ \A k \in DOMAIN cache' : k \in DOMAIN cache /\ cache'[k] = cache[k]
        /\ \A k \in DOMAIN cache : k \notin DOMAIN cache' => RemovedByOwnRead(k)

\* The call after a "no results" call with the same inputs enters the
\* adapter again and is not answered from the cache.
RetriesAfterEmpty(i) ==
    (/\ Starts(i)
     /\ inv[i].pc = "done"
     /\ IsEmptyResponse(inv[i].resp)
     /\ SameInputs(inv[i], inv'[i])) =>
        /\ inv'[i].adapter
        /\ ~inv'[i].hit

\* C3 as stated: a call whose adapter yields zero items leaves the store
\* unchanged, and the next identical call enters the adapter again.
C3_EmptyLeavesStoreUntouched ==
    [][\A i \in DOMAIN inv :
          /\ (Completes(i) /\ IsEmptyResponse(inv'[i].resp)) =>
                /\ UNCHANGED hassVars
                /\ ~inv'[i].wrote
                /\ ~inv'[i].evicted
          /\ RetriesAfterEmpty(i)]_vars

\* C3, amended: a call whose adapter yields zero items stores nothing (it
\* changes the store at most by the eviction, at lookup, of the expired
\* entry under its own key), and the next identical call enters the
\* adapter again.
C3_EmptyNeverCached ==
    [][\A i \in DOMAIN inv :
          /\ (Completes(i) /\ IsEmptyResponse(inv'[i].resp)) =>
                /\ UNCHANGED hassVars
                /\ ~inv'[i].wrote
                /\ inv'[i].key \notin DOMAIN cache'
          /\ LookupOnlyEvictsOwn(i)
          /\ RetriesAfterEmpty(i)]_vars

\* A second call got "no results" after its lookup evicted an entry.
C3_Witness ==
    \E i \in DOMAIN inv :
        /\ inv[i].pc = "done"
        /\ IsEmptyResponse(inv[i].resp)
        /\ inv[i].adapter
        /\ inv[i].evicted
        /\ calls = 2

\* The adapter raised: a credential or URL is missing, or the upstream
\* request failed.
AdapterFailed(r) == r.pc = "done" /\ r.fault \in {"config", "upstream"}

\* A call that misses the cache with the credential missing fails in the
\* adapter before any request is made.
MissingCredentialFails(i) ==
    (/\ Starts(i)
     /\ inv'[i].outcome # "raised"
     /\ inv'[i].fault # "lookup"
     /\ ~inv'[i].hit
     /\ RequiresCredential(inv'[i].tool)
     /\ ~inv'[i].cfg.cred) =>
        /\ AdapterFailed(inv'[i])
        /\ inv'[i].http = 0

\* C4 as stated: when the adapter fails the response is {"error"} alone
\* and the store is exactly as before the call.
C4_FailureLeavesStoreUntouched ==
    [][\A i \in DOMAIN inv :
          /\ (inv'[i] # inv[i] /\ AdapterFailed(inv'[i])) =>
                /\ inv'[i].outcome = "returned"
                /\ inv'[i].resp.fields = {"error"}
                /\ ~inv'[i].wrote
                /\ ~inv'[i].evicted
                /\ Completes(i) => UNCHANGED hassVars
          /\ MissingCredentialFails(i)]_vars

\* C4, amended: when the adapter fails the response is {"error"} alone and
\* the call stores nothing; it changes the store at most by the eviction,
\* at lookup, of the expired entry under its own key.
C4_FailureNeverCached ==
    [][\A i \in DOMAIN inv :
          /\ (inv'[i] # inv[i] /\ AdapterFailed(inv'[i])) =>
                /\ inv'[i].outcome = "returned"
                /\ inv'[i].resp.fields = {"error"}
                /\ ~inv'[i].wrote
                /\ inv'[i].key \notin DOMAIN cache'
                /\ Completes(i) => UNCHANGED hassVars
          /\ LookupOnlyEvictsOwn(i)
          /\ MissingCredentialFails(i)]_vars

\* An upstream failure was turned into an error response.
C4_Witness ==
    \E i \in DOMAIN inv :
        /\ AdapterFailed(inv[i])
        /\ inv[i].fault = "upstream"
        /\ inv[i].http > 0
        /\ inv[i].resp.fields = {"error"}

C6_CancelWritesNothing ==
    [][\A i \in DOMAIN inv :
          (inv'[i].outcome = "cancelled" /\ inv[i].outcome # "cancelled") =>
              /\ inv[i].pc \in Suspended
              /\ inv'[i].pc = "done"
              /\ ~inv'[i].wrote
              /\ inv'[i].resp = NoResp
              /\ UNCHANGED hassVars]_vars

\* The video search was cancelled between its two requests.
C6_Witness ==
    \E i \in DOMAIN inv :
        /\ inv[i].outcome = "cancelled"
        /\ inv[i].tool = "youtube"
        /\ inv[i].http = 2
        /\ inv[i].key \notin DOMAIN cache

\* C10: in a success response num_results is the length of results and
\* does not exceed the resolved result count of the call.
C10_NumResultsWithinCount ==
    \A i \in DOMAIN inv :
        (inv[i].pc = "done" /\ "num_results" \in inv[i].resp.fields) =>
            /\ inv[i].resp.num_results = Len(inv[i].resp.results)
            /\ inv[i].resp.num_results <= inv[i].count

(***************************************************************************)
(* Two invocations in flight at once, on an integration that is set up:    *)
(* the event loop runs one coroutine at a time and switches at the         *)
(* upstream requests only.                                                 *)
(***************************************************************************)
RaceConfigs ==
    {c \in Configs : c.num = Num(2) /\ c.ttl = Num(1) /\ c.cred}

\* The state setup_llm_api leaves behind for entry e with configuration c.
InitRace ==
    /\ now = 0
    /\ domain = TRUE
    /\ hasCache = TRUE
    /\ hasEntries = TRUE
    /\ cache = EmptyMap
    /\ stored \in [{"e1"} -> RaceConfigs]
    /\ entries = stored
    /\ apis = [t \in {ToolType(stored["e1"].tool)} |->
                  [entry |-> "e1", cfg |-> stored["e1"]]]
    /\ inv = [i \in {"i1", "i2"} |-> IdleInvocation]
    /\ calls = 0

\* Each of the two invocations is one call of a tool.
RaceCall(i) == inv[i].pc = "idle" /\ Call(i)

NextRace ==
    \/ Tick
    \/ RaceCall("i1")
    \/ RaceCall("i2")
    \/ Resume("i1")
    \/ Resume("i2")

SpecRace == InitRace /\ [][NextRace]_vars

\* What a successful invocation hands to _cache_set.
PayloadOf(r) ==
    IF r.tool = "wikipedia" THEN DocPayload(r.resp) ELSE ListPayload(r.results)

IsSuccess(r) ==
    /\ r.pc = "done"
    /\ r.outcome = "returned"
    /\ r.resp.fields # {}
    /\ "error" \notin r.resp.fields
    /\ ~IsEmptyResponse(r.resp)

\* Both invocations missed the cache before either wrote: neither found
\* an entry under the key (not even an expired one), both entered the
\* adapter, and both have written since.
Raced(i, j) ==
    /\ i # j
    /\ inv[i].key = inv[j].key
    /\ IsSuccess(inv[i]) /\ IsSuccess(inv[j])
    /\ inv[i].adapter /\ inv[j].adapter
    /\ ~inv[i].hit /\ ~inv[j].hit
    /\ ~inv[i].evicted /\ ~inv[j].evicted
    /\ inv[i].wrote /\ inv[j].wrote

\* C7: of two invocations with the same key that both miss, each enters
\* the adapter and returns a success response built from its own result;
\* every write replaces the entry under the key by the writer's result, so
\* the store ends with one entry for the key, that of the last writer.
C7_LastWriterWins ==
    /\ [][/\ \A i \in DOMAIN inv :
                (Completes(i) /\ IsSuccess(inv'[i]) /\ ~inv[i].hit) =>
                    /\ inv'[i].adapter
                    /\ inv'[i].http > 0
                    /\ inv'[i].tool # "wikipedia" =>
                          inv'[i].resp =
                              FormatResponse(inv'[i].tool, inv'[i].results,
                                             inv'[i].query, inv'[i].hint)
                    /\ inv'[i].wrote
                    /\ inv'[i].key \in DOMAIN cache'
                    /\ cache'[inv'[i].key] =
                          [ts |-> now, data |-> PayloadOf(inv'[i])]
          /\ \A k \in DOMAIN cache' :
                (k \notin DOMAIN cache \/ cache'[k] # cache[k]) =>
                    \E i \in DOMAIN inv :
                        /\ Completes(i)
                        /\ inv'[i].key = k
                        /\ cache'[k].data = PayloadOf(inv'[i])]_vars
    /\ [](\A i, j \in DOMAIN inv :
             Raced(i, j) =>
                 /\ inv[i].key \in DOMAIN cache
                 /\ cache[inv[i].key].data \in
                       {PayloadOf(inv[i]), PayloadOf(inv[j])})

\* Two racing invocations got different results and the store holds the
\* second one's.
C7_Witness ==
    /\ Raced("i1", "i2")
    /\ PayloadOf(inv["i1"]) # PayloadOf(inv["i2"])
    /\ cache[inv["i1"].key].data = PayloadOf(inv["i2"])

(***************************************************************************)
(* _get_num_results over the configured and the requested counts: calls    *)
(* on an integration that is set up, up to the adapter's first request.    *)
(***************************************************************************)
CountConfigs ==
    [tool : Tools \ {"wikipedia"},
     num : {Num(n) : n \in 1..MaxCount} \cup {Unset},
     ttl : {Num(1)}, cred : {TRUE}, detail : {"concise"}]

CountArgs == {NoneArg} \cup {IntArg(n) : n \in 1..MaxCount}

InitCount ==
    /\ now = 0
    /\ domain = TRUE
    /\ hasCache = TRUE
    /\ hasEntries = TRUE
    /\ cache = EmptyMap
    /\ stored \in [{"e1"} -> CountConfigs]
    /\ entries = stored
    /\ apis = [t \in {ToolType(stored["e1"].tool)} |->
                  [entry |-> "e1", cfg |-> stored["e1"]]]
    /\ inv = [i \in {"i1"} |-> IdleInvocation]
    /\ calls = 0

CountCall(i) ==
    \E type \in DOMAIN apis, explicit \in CountArgs :
        StartCall(i, type, <<"c", "a", "t", "s">>, explicit, FALSE)

NextCount == CountCall("i1")

SpecCount == InitCount /\ [][NextCount]_vars

\* The value read from the configuration of an invocation record.
ConfiguredCount(r) ==
    IF r.cfg.num.kind = "unset" THEN DEFAULT_NUM_RESULTS ELSE r.cfg.num.v

\* C8 as stated: the count handed to the adapter is
\* min(explicit, configured) when num_results is given and the configured
\* value otherwise.
C8_CountIsMinOfExplicitAndConfigured ==
    \A i \in DOMAIN inv :
        inv[i].adapter =>
            inv[i].count =
                IF inv[i].explicit.given
                THEN Min(inv[i].explicit.v, ConfiguredCount(inv[i]))
                ELSE ConfiguredCount(inv[i])

\* C8, amended: the same, with the configured value of a web tool first
\* capped at 6.
C8_CountIsMinWithWebCap ==
    \A i \in DOMAIN inv :
        inv[i].adapter =>
            LET configured == ConfiguredCount(inv[i])
                configured_max ==
                    IF inv[i].tool \in WebTools /\ configured > 6
                    THEN 6 ELSE configured
            IN inv[i].count =
                   IF inv[i].explicit.given
                   THEN Min(inv[i].explicit.v, configured_max)
                   ELSE configured_max

\* A request above the configured maximum 5 resolves to 5, and a web
\* tool configured above 6 resolves to 6.
C8_Witness ==
    \E i \in DOMAIN inv :
        /\ inv[i].adapter
        /\ \/ /\ inv[i].explicit = IntArg(MaxCount)
              /\ inv[i].cfg.num = Num(5)
              /\ inv[i].count = 5
           \/ /\ inv[i].tool \in WebTools
              /\ inv[i].explicit = NoneArg
              /\ inv[i].cfg.num = Num(8)
              /\ inv[i].count = 6

C11_ErrorExcludesResults ==
    \A i \in DOMAIN inv :
        ~({"error", "results"} \subseteq inv[i].resp.fields)

\* Responses of both kinds were returned: an error after the adapter
\* failed, and results from the cache.
C11_Witness ==
    \E i \in DOMAIN inv :
        /\ inv[i].pc = "done"
        /\ inv[i].fault = "upstream"
        /\ "error" \in inv[i].resp.fields
        /\ \E k \in DOMAIN cache : cache[k].data.kind = "list"

SuccessShape(resp) ==
    /\ {"query", "instruction"} \subseteq resp.fields
    /\ "results" \in resp.fields \/ "summary" \in resp.fields
    /\ "error" \notin resp.fields
    /\ "message" \notin resp.fields

EmptyShape(resp) ==
    /\ {"query", "results", "message"} \subseteq resp.fields
    /\ resp.results = <<>>
    /\ "error" \notin resp.fields
    /\ "instruction" \notin resp.fields

ErrorShape(resp) == resp.fields = {"error"}

\* C12: every response a search tool returns has the success, the empty
\* or the error shape.
C12_ThreeShapes ==
    \A i \in DOMAIN inv :
        (inv[i].pc = "done" /\ inv[i].outcome = "returned") =>
            \/ SuccessShape(inv[i].resp)
            \/ EmptyShape(inv[i].resp)
            \/ ErrorShape(inv[i].resp)

(***************************************************************************)
(* Cache keys: one config entry per tool kind (image, web, video,          *)
(* Wikipedia) is set up, all sharing hass.data[DOMAIN]["cache"], and two   *)
(* invocations are made, each one call of any of the four APIs.            *)
(***************************************************************************)
\* "cats", "Cats", "cats ", " CATS"
CatsVariants ==
    {<<"c", "a", "t", "s">>, <<"C", "a", "t", "s">>,
     <<"c", "a", "t", "s", " ">>, <<" ", "C", "A", "T", "S">>}

\* and "cat"
KeyQueries == CatsVariants \cup {<<"c", "a", "t">>}

KeyConfig(tool, detail) ==
    [tool |-> tool, num |-> Num(2), ttl |-> Num(1), cred |-> TRUE,
     detail |-> detail]

KeySetups ==
    {[e1 |-> KeyConfig("brave_image", "concise"),
      e2 |-> KeyConfig("brave_web", "concise"),
      e3 |-> KeyConfig("youtube", "concise"),
      e4 |-> KeyConfig("wikipedia", "concise")],
     [e1 |-> KeyConfig("searxng_image", "concise"),
      e2 |-> KeyConfig("searxng_web", "concise"),
      e3 |-> KeyConfig("youtube", "concise"),
      e4 |-> KeyConfig("wikipedia", "detailed")]}

\* The state after setup_llm_api ran for each of the four entries.
InitKey ==
    /\ now = 0
    /\ domain = TRUE
    /\ hasCache = TRUE
    /\ hasEntries = TRUE
    /\ cache = EmptyMap
    /\ stored \in KeySetups
    /\ entries = stored
    /\ apis = [t \in {ToolType(stored[e].tool) : e \in DOMAIN stored} |->
                  LET e == CHOOSE x \in DOMAIN stored :
                               ToolType(stored[x].tool) = t
                  IN [entry |-> e, cfg |-> stored[e]]]
    /\ inv = [i \in {"i1", "i2"} |-> IdleInvocation]
    /\ calls = 0

KeyCall(i) ==
    /\ inv[i].pc = "idle"
    /\ \E type \in DOMAIN apis, query \in KeyQueries :
          \E a \in ArgsOf(type) :
              StartCall(i, type, query, a.explicit, a.hint)

NextKey ==
    \/ KeyCall("i1")
    \/ KeyCall("i2")
    \/ Resume("i1")
    \/ Resume("i2")

SpecKey == InitKey /\ [][NextKey]_vars

\* The invocation computed its cache key.
HasKey(r) == r.key # NoKey

\* The two query texts are equal up to letter case and surrounding
\* whitespace.
SameText(q1, q2) == q1 = q2 \/ (q1 \in CatsVariants /\ q2 \in CatsVariants)

\* What the key of a request may depend on, apart from the query text.
SameQualifiers(r1, r2) ==
    /\ ToolType(r1.tool) = ToolType(r2.tool)
    /\ r1.count = r2.count
    /\ r1.tool = "wikipedia" => r1.cfg.detail = r2.cfg.detail

\* C13: the key depends on the inputs only, and "cats", "Cats", "cats ",
\* " CATS" give the same key when tool kind, result count and detail
\* level are equal.
C13_KeyNormalizesQuery ==
    /\ \A i \in DOMAIN inv :
          (HasKey(inv[i]) /\ inv[i].query \in CatsVariants) =>
              inv[i].key.q = <<"c", "a", "t", "s">>
    /\ \A i, j \in DOMAIN inv :
          (/\ HasKey(inv[i]) /\ HasKey(inv[j])
           /\ SameText(inv[i].query, inv[j].query)
           /\ SameQualifiers(inv[i], inv[j])) =>
              inv[i].key = inv[j].key

\* "Cats" was answered from the entry that " CATS" had written.
C13_Witness ==
    /\ inv["i1"].query = <<" ", "C", "A", "T", "S">>
    /\ inv["i1"].wrote
    /\ inv["i2"].query = <<"C", "a", "t", "s">>
    /\ inv["i2"].hit
    /\ inv["i1"].key = inv["i2"].key

\* C14: requests that differ in tool kind, normalized query, resolved
\* count or Wikipedia detail level have different keys, so that a call
\* never reads the entry written for a request that differs so.
C14_DistinctRequestsDistinctKeys ==
    /\ \A i, j \in DOMAIN inv :
          (/\ HasKey(inv[i]) /\ HasKey(inv[j])
           /\ ~(SameText(inv[i].query, inv[j].query)
                /\ SameQualifiers(inv[i], inv[j]))) =>
              inv[i].key # inv[j].key
    /\ \A i \in DOMAIN inv :
          (HasKey(inv[i]) /\ inv[i].tool = "wikipedia") =>
              \A d \in {"concise", "detailed"} \ {inv[i].cfg.detail} :
                  WikipediaMakeCacheKey([inv[i].cfg EXCEPT !.detail = d],
                                        inv[i].query) # inv[i].key

\* An image entry for "cats" is cached and a web search for "cats" with
\* the same count missed it.
C14_Witness ==
    /\ inv["i1"].tool \in ImageTools
    /\ inv["i1"].wrote
    /\ inv["i2"].tool \in WebTools
    /\ inv["i2"].query = inv["i1"].query
    /\ inv["i2"].count = inv["i1"].count
    /\ inv["i2"].adapter
    /\ ~inv["i2"].hit
    /\ inv["i1"].key \in DOMAIN cache

\* C15: on a cache hit of the image or video tool the auto_display /
\* auto_play value of the response is the one the current call supplied.
C15_HitUsesCurrentHint ==
    \A i \in DOMAIN inv :
        (inv[i].hit /\ inv[i].tool \in ImageTools \cup {"youtube"}) =>
            /\ inv[i].resp.hint = inv[i].hint
            /\ inv[i].resp.fields \cap {"auto_display", "auto_play"} # {}

\* An entry written by a call with the hint set answered a call without
\* it, and the other way round.
C15_Witness ==
    \E i, j \in DOMAIN inv :
        /\ inv[j].wrote
        /\ inv[i].hit
        /\ inv[i].key = inv[j].key
        /\ inv[i].tool \in ImageTools \cup {"youtube"}
        /\ inv[j].hint # inv[i].hint
        /\ inv[j].resp.hint # inv[i].resp.hint

\* C16: on a cache hit the query field of the response is the query
\* text of the current call.
C16_HitReportsCurrentQuery ==
    \A i \in DOMAIN inv :
        inv[i].hit =>
            /\ "query" \in inv[i].resp.fields
            /\ inv[i].resp.query = inv[i].query

(***************************************************************************)
(* The financial tool: base_financial.py and finnhub_financial.py.         *)
(***************************************************************************)
UpperChar(c) ==
    CASE c = "b" -> "B"
      [] c = "t" -> "T"
      [] c = "c" -> "C"
      [] c = "u" -> "U"
      [] c = "s" -> "S"
      [] c = "d" -> "D"
      [] OTHER -> c

\* str.upper()
Upper(s) == [k \in 1..Len(s) |-> UpperChar(s[k])]

\* str.endswith(suffix)
EndsWith(s, suffix) ==
    /\ Len(s) >= Len(suffix)
    /\ SubSeq(s, Len(s) - Len(suffix) + 1, Len(s)) = suffix

\* ("USDT", "USD", "EUR", "GBP")
QuoteSuffixes ==
    << <<"U", "S", "D", "T">>, <<"U", "S", "D">>, <<"E", "U", "R">>,
       <<"G", "B", "P">> >>

\* The loop of _get_crypto_base without the length test.
StripSuffixFromAnyLength(base, k) ==
    LET matching == {n \in k..Len(QuoteSuffixes) :
                        EndsWith(base, QuoteSuffixes[n])}
        first == CHOOSE n \in matching : \A m \in matching : n <= m
    IN IF matching = {} THEN base
       ELSE SubSeq(base, 1, Len(base) - Len(QuoteSuffixes[first]))

\* for suffix in (...): if base.endswith(suffix) and len(base) >
\* len(suffix): return base[:-len(suffix)], from the k-th suffix on.
RECURSIVE StripSuffix(_, _)
StripSuffix(base, k) ==
    IF k > Len(QuoteSuffixes) THEN base
    ELSE IF EndsWith(base, QuoteSuffixes[k])
            /\ Len(base) > Len(QuoteSuffixes[k])
    THEN SubSeq(base, 1, Len(base) - Len(QuoteSuffixes[k]))
    ELSE StripSuffix(base, k + 1)

GetCryptoBase(symbol) == StripSuffix(Upper(symbol), 1)

\* Keys of CRYPTO_COINGECKO_IDS that the model's symbols can reach.
CRYPTO_COINGECKO_IDS == {<<"B", "T", "C">>, <<"E", "T", "H">>}

\* Symbols passed as tool argument: "", "btcusdt", "BTCUSD", "ETHEUR",
\* "BTC", "USD", "AAPL", "BTCUSDUSDT".
FinSymbols ==
    {<<>>,
     <<"b", "t", "c", "u", "s", "d", "t">>,
     <<"B", "T", "C", "U", "S", "D">>,
     <<"E", "T", "H", "E", "U", "R">>,
     <<"B", "T", "C">>,
     <<"U", "S", "D">>,
     <<"A", "A", "P", "L">>,
     <<"B", "T", "C", "U", "S", "D", "U", "S", "D", "T">>}

FinConfigs ==
    [tool : {"finnhub"}, num : {Num(2)}, ttl : {Num(1)}, cred : BOOLEAN,
     detail : {"concise"}]

\* _handle_stock (lines 101-138) on the dict of the equities source.
StockResponse ==
    [NoResp EXCEPT !.fields = {"source", "query_type", "symbol", "name",
                               "exchange", "currency", "current_price",
                               "change", "percent_change", "high", "low",
                               "open", "previous_close", "instruction"},
                   !.query_type = "stock"]

\* _handle_stock on the dict of _try_crypto_quote (is_crypto).
CryptoResponse ==
    [NoResp EXCEPT !.fields = {"source", "query_type", "symbol", "name",
                               "exchange", "currency", "current_price",
                               "change", "percent_change", "high", "low",
                               "instruction"},
                   !.query_type = "crypto"]

\* _handle_currency, lines 157-169
CurrencyResponse ==
    [NoResp EXCEPT !.fields = {"source", "query_type", "from_currency",
                               "to_currency", "rate", "amount",
                               "converted_amount", "instruction"},
                   !.query_type = "currency"]

\* One more upstream request, to the given source.
Request(r, source, pc) ==
    [r EXCEPT !.pc = pc, !.http = r.http + 1,
              !.requests = Append(r.requests, source)]

\* The stock query asking the crypto source before the API key is looked
\* at.
FinStartCallCryptoBeforeKey(i, query_type, symbol, from_currency, to_currency) ==
    /\ inv[i].pc \in {"idle", "done"}
    /\ calls < MaxCalls
    /\ calls' = calls + 1
    /\ "financial" \in DOMAIN apis
    /\ LET cfg == apis["financial"].cfg
           sym == Strip(Upper(symbol))
           from_cur == Strip(Upper(from_currency))
           to_cur == Strip(Upper(to_currency))
           given == from_cur # <<>> /\ to_cur # <<>>
           r0 == [IdleInvocation EXCEPT !.tool = cfg.tool, !.cfg = cfg,
                                        !.query_type = query_type,
                                        !.symbol = sym,
                                        !.from_currency = from_cur,
                                        !.to_currency = to_cur]
           r1 == [r0 EXCEPT !.adapter = TRUE]
           r2 == [r1 EXCEPT !.base = GetCryptoBase(sym)]
       IN
       IF query_type = "stock" /\ sym # <<>>
       THEN IF r2.base \in CRYPTO_COINGECKO_IDS
            THEN inv' = [inv EXCEPT ![i] =
                            Request(r2, "coingecko", "crypto_first")]
            ELSE IF ~cfg.cred
            THEN inv' = [inv EXCEPT ![i] = Failed(r1, "config")]
            ELSE inv' = [inv EXCEPT ![i] =
                            Request(r2, "finnhub_quote", "quote")]
       ELSE IF query_type = "stock" \/ ~given
            THEN inv' = [inv EXCEPT ![i] = Returned(r0, ErrorResponse)]
            ELSE IF ~cfg.cred
            THEN inv' = [inv EXCEPT ![i] = Failed(r1, "config")]
            ELSE inv' = [inv EXCEPT ![i] =
                            Request(r1, "finnhub_forex", "rates")]
    /\ UNCHANGED <<now, apis, stored>>
    /\ UNCHANGED hassVars

\* async_call of the financial tool up to its first suspension: the symbol
\* and the currency codes are read with .upper().strip().
FinStartCall(i, query_type, symbol, from_currency, to_currency) ==
    /\ inv[i].pc \in {"idle", "done"}
    /\ calls < MaxCalls
    /\ calls' = calls + 1
    /\ "financial" \in DOMAIN apis
    /\ LET cfg == apis["financial"].cfg
           sym == Strip(Upper(symbol))
           from_cur == Strip(Upper(from_currency))
           to_cur == Strip(Upper(to_currency))
           given == from_cur # <<>> /\ to_cur # <<>>
           r0 == [IdleInvocation EXCEPT !.tool = cfg.tool, !.cfg = cfg,
                                        !.query_type = query_type,
                                        !.symbol = sym,
                                        !.from_currency = from_cur,
                                        !.to_currency = to_cur]
           r1 == [r0 EXCEPT !.adapter = TRUE]
       IN
       IF query_type = "stock"
       THEN IF sym = <<>>
            THEN inv' = [inv EXCEPT ![i] = Returned(r0, ErrorResponse)]
            ELSE IF ~cfg.cred
            THEN inv' = [inv EXCEPT ![i] = Failed(r1, "config")]
            ELSE LET base == GetCryptoBase(sym)
                     r2 == [r1 EXCEPT !.base = base]
                 IN IF base \in CRYPTO_COINGECKO_IDS
                    THEN inv' = [inv EXCEPT ![i] =
                                    Request(r2, "coingecko", "crypto_first")]
                    ELSE inv' = [inv EXCEPT ![i] =
                                    Request(r2, "finnhub_quote", "quote")]
       ELSE IF ~given
            THEN inv' = [inv EXCEPT ![i] = Returned(r0, ErrorResponse)]
            ELSE IF ~cfg.cred
            THEN inv' = [inv EXCEPT ![i] = Failed(r1, "config")]
            ELSE inv' = [inv EXCEPT ![i] =
                            Request(r1, "finnhub_forex", "rates")]
    /\ UNCHANGED <<now, apis, stored>>
    /\ UNCHANGED hassVars

\* What _try_crypto_quote returns for an answer of CoinGecko: a quote
\* (TRUE) or None.
CryptoQuoteFound(status) == status = "ok"

\* Lines 71-78: the first crypto attempt comes back.
CryptoFirstReturn(i, status) ==
    /\ inv[i].pc = "crypto_first"
    /\ IF CryptoQuoteFound(status)
       THEN inv' = [inv EXCEPT ![i] = Returned(inv[i], CryptoResponse)]
       ELSE inv' = [inv EXCEPT ![i] =
                       Request(inv[i], "finnhub_quote", "quote")]
    /\ UNCHANGED <<now, apis, calls, stored>>
    /\ UNCHANGED hassVars

\* The equities quote handled without the last-resort crypto attempt.
QuoteReturnNoLastResort(i, status) ==
    /\ inv[i].pc = "quote"
    /\ LET r == inv[i] IN
       IF status \in {"http_error", "transport_error"}
       THEN inv' = [inv EXCEPT ![i] = Failed(r, "upstream")]
       ELSE IF status = "price"
       THEN inv' = [inv EXCEPT ![i] =
                       Request(r, "finnhub_profile", "profile")]
       ELSE inv' = [inv EXCEPT ![i] = Failed(r, "no_quote")]
    /\ UNCHANGED <<now, apis, calls, stored>>
    /\ UNCHANGED hassVars

\* Lines 78-101: the equities quote comes back: status "price" (c is a
\* non-zero number), "zero" (c is 0 or None), "http_error" or
\* "transport_error".
QuoteReturn(i, status) ==
    /\ inv[i].pc = "quote"
    /\ LET r == inv[i] IN
       IF status \in {"http_error", "transport_error"}
       THEN inv' = [inv EXCEPT ![i] = Failed(r, "upstream")]
       ELSE IF status = "price"
       THEN inv' = [inv EXCEPT ![i] =
                       Request(r, "finnhub_profile", "profile")]
       ELSE IF r.base \in CRYPTO_COINGECKO_IDS
       THEN inv' = [inv EXCEPT ![i] =
                       Request(r, "coingecko", "crypto_last")]
       ELSE \* _try_crypto_quote returns None without a request
            inv' = [inv EXCEPT ![i] = Failed(r, "no_quote")]
    /\ UNCHANGED <<now, apis, calls, stored>>
    /\ UNCHANGED hassVars

\* Lines 90-96: the last-resort crypto attempt comes back.
CryptoLastReturn(i, status) ==
    /\ inv[i].pc = "crypto_last"
    /\ IF CryptoQuoteFound(status)
       THEN inv' = [inv EXCEPT ![i] = Returned(inv[i], CryptoResponse)]
       ELSE inv' = [inv EXCEPT ![i] = Failed(inv[i], "no_quote")]
    /\ UNCHANGED <<now, apis, calls, stored>>
    /\ UNCHANGED hassVars

\* Lines 98-122: the company profile is optional, any answer will do.
ProfileReturn(i, status) ==
    /\ inv[i].pc = "profile"
    /\ status \in HttpStatuses
    /\ inv' = [inv EXCEPT ![i] = Returned(inv[i], StockResponse)]
    /\ UNCHANGED <<now, apis, calls, stored>>
    /\ UNCHANGED hassVars

\* The rate read with a default: rates.get(to_currency, 1.0).
RatesReturnDefaultRate(i, status, table) ==
    /\ inv[i].pc = "rates"
    /\ IF status = "ok"
       THEN inv' = [inv EXCEPT ![i] =
                       Returned([inv[i] EXCEPT !.rates = table],
                                CurrencyResponse)]
       ELSE inv' = [inv EXCEPT ![i] = Failed(inv[i], "upstream")]
    /\ UNCHANGED <<now, apis, calls, stored>>
    /\ UNCHANGED hassVars

\* async_get_currency_rate, lines 189-206: table holds the currencies of
\* data["quote"] in a 200 answer.
RatesReturn(i, status, table) ==
    /\ inv[i].pc = "rates"
    /\ IF status = "ok" /\ inv[i].to_currency \in table
       THEN inv' = [inv EXCEPT ![i] =
                       Returned([inv[i] EXCEPT !.rates = table],
                                CurrencyResponse)]
       ELSE IF status = "ok"
       THEN inv' = [inv EXCEPT ![i] =
                       Failed([inv[i] EXCEPT !.rates = table], "no_rate")]
       ELSE inv' = [inv EXCEPT ![i] = Failed(inv[i], "upstream")]
    /\ UNCHANGED <<now, apis, calls, stored>>
    /\ UNCHANGED hassVars

CryptoStatuses == {"ok", "empty", "http_error", "transport_error"}
QuoteStatuses == {"price", "zero", "http_error", "transport_error"}

\* Currency codes passed as tool arguments: "", " ", "usd", "EUR ".
Currencies ==
    {<<>>, <<" ">>, <<"u", "s", "d">>, <<"E", "U", "R", " ">>}

\* The rate tables an answer of /forex/rates may hold.
RateTables == SUBSET {<<"U", "S", "D">>, <<"E", "U", "R">>}

FinCall(i) ==
    \/ \E symbol \in FinSymbols :
          FinStartCall(i, "stock", symbol, <<>>, <<>>)
    \/ \E from_currency \in Currencies, to_currency \in Currencies :
          FinStartCall(i, "currency", <<>>, from_currency, to_currency)

FinResume(i) ==
    \/ \E st \in CryptoStatuses : CryptoFirstReturn(i, st)
    \/ \E st \in QuoteStatuses : QuoteReturn(i, st)
    \/ \E st \in CryptoStatuses : CryptoLastReturn(i, st)
    \/ \E st \in HttpStatuses : ProfileReturn(i, st)
    \/ \E st \in HttpStatuses, table \in RateTables :
          RatesReturn(i, st, table)

\* The state after setup_llm_api of a financial entry.
InitFin ==
    /\ now = 0
    /\ domain = TRUE
    /\ hasCache = TRUE
    /\ hasEntries = TRUE
    /\ cache = EmptyMap
    /\ stored \in [{"e1"} -> FinConfigs]
    /\ entries = stored
    /\ apis = [t \in {"financial"} |-> [entry |-> "e1", cfg |-> stored["e1"]]]
    /\ inv = [i \in {"i1"} |-> IdleInvocation]
    /\ calls = 0

NextFin == FinCall("i1") \/ FinResume("i1")

SpecFin == InitFin /\ [][NextFin]_vars

\* A stock query that got past the symbol and credential checks.
StockQuery(r) ==
    /\ r.query_type = "stock"
    /\ r.adapter
    /\ r.fault # "config"

KnownCrypto(r) == r.base \in CRYPTO_COINGECKO_IDS

LastRequest(r) == r.requests[Len(r.requests)]

\* The order of sources that does not depend on how a failure ends: a
\* known crypto base asks the crypto source first, any other base the
\* equities source; a crypto quote is returned right after a crypto
\* request; the last-resort attempt follows the equities request.
SourceOrder(r) ==
    /\ r.requests # <<>>
    /\ r.requests[1] = (IF KnownCrypto(r) THEN "coingecko"
                                          ELSE "finnhub_quote")
    /\ (KnownCrypto(r) /\ Len(r.requests) >= 2) =>
          r.requests[2] = "finnhub_quote"
    /\ r.resp.query_type = "crypto" => LastRequest(r) = "coingecko"
    /\ r.pc = "crypto_last" =>
          r.requests = <<"coingecko", "finnhub_quote", "coingecko">>
    /\ \A k \in 1..Len(r.requests) :
          r.requests[k] = "finnhub_profile" =>
              /\ k = Len(r.requests)
              /\ r.requests[k - 1] = "finnhub_quote"

\* C18 as stated: the sources of a stock query are asked in the order
\* crypto (known base), equities, crypto as last resort, and failure is
\* declared only after the last crypto attempt returned nothing.
C18_FailureOnlyAfterLastResort ==
    \A i \in DOMAIN inv :
        StockQuery(inv[i]) =>
            /\ SourceOrder(inv[i])
            /\ "error" \in inv[i].resp.fields =>
                  /\ LastRequest(inv[i]) = "coingecko"
                  /\ Len(inv[i].requests) >= 2

\* C18, amended: the same order; failure is declared after the
\* last-resort crypto attempt when the base is a known crypto identifier
\* and the equities price is zero or absent, and at once when the
\* equities request fails or the base is not a known crypto identifier.
C18_SourceOrder ==
    \A i \in DOMAIN inv :
        StockQuery(inv[i]) =>
            /\ SourceOrder(inv[i])
            /\ inv[i].fault = "no_quote" =>
                  IF KnownCrypto(inv[i])
                  THEN inv[i].requests =
                           <<"coingecko", "finnhub_quote", "coingecko">>
                  ELSE inv[i].requests = <<"finnhub_quote">>
            /\ inv[i].fault = "upstream" =>
                  LastRequest(inv[i]) = "finnhub_quote"
            /\ "error" \in inv[i].resp.fields =>
                  inv[i].fault \in {"no_quote", "upstream"}

\* The crypto source failed first, the equities price was zero, and the
\* last-resort crypto attempt gave the quote.
C18_Witness ==
    \E i \in DOMAIN inv :
        /\ StockQuery(inv[i])
        /\ inv[i].pc = "done"
        /\ inv[i].requests = <<"coingecko", "finnhub_quote", "coingecko">>
        /\ inv[i].resp.query_type = "crypto"

\* C19: within one invocation no upstream source is asked twice.
C19_EachSourceOnce ==
    \A i \in DOMAIN inv :
        \A k, m \in 1..Len(inv[i].requests) :
            inv[i].requests[k] = inv[i].requests[m] => k = m

\* The base _get_crypto_base gives for the symbols of the model.
ExpectedBase(symbol) ==
    CASE symbol = <<"B", "T", "C", "U", "S", "D", "T">> -> <<"B", "T", "C">>
      [] symbol = <<"B", "T", "C", "U", "S", "D">> -> <<"B", "T", "C">>
      [] symbol = <<"E", "T", "H", "E", "U", "R">> -> <<"E", "T", "H">>
      [] symbol = <<"B", "T", "C", "U", "S", "D", "U", "S", "D", "T">> ->
            <<"B", "T", "C", "U", "S", "D">>
      [] OTHER -> symbol

\* C20: the base is the upper-cased symbol without one quote-currency
\* suffix (a symbol equal to a suffix, or without one, is kept), and the
\* crypto source is asked first exactly when that base is in the table.
C20_CryptoBase ==
    \A i \in DOMAIN inv :
        StockQuery(inv[i]) =>
            /\ inv[i].base = ExpectedBase(inv[i].symbol)
            /\ inv[i].base # <<>>
            /\ (inv[i].requests[1] = "coingecko") =
                  (ExpectedBase(inv[i].symbol) \in
                      {<<"B", "T", "C">>, <<"E", "T", "H">>})

\* "btcusdt" resolved to "BTC" and the crypto source was asked first.
C20_Witness ==
    \E i \in DOMAIN inv :
        /\ inv[i].symbol = <<"B", "T", "C", "U", "S", "D", "T">>
        /\ inv[i].base = <<"B", "T", "C">>
        /\ inv[i].pc = "crypto_first"
        /\ inv[i].requests = <<"coingecko">>

(***************************************************************************)
(* Reloading a config entry.  The options flow stores new options, the     *)
(* update listener reloads the entry: cleanup_llm_api, then setup_llm_api  *)
(* on {**entry.data, **entry.options}.  The store under hass.data[DOMAIN]  *)
(* lives on as long as another entry is recorded.                          *)
(***************************************************************************)
\* The other provider of the same tool type.
OtherProvider(tool) ==
    CASE tool = "brave_image" -> "searxng_image"
      [] tool = "searxng_image" -> "brave_image"
      [] tool = "brave_web" -> "searxng_web"
      [] tool = "searxng_web" -> "brave_web"
      [] OTHER -> tool

\* The options flow saved the entry with its API key or server URL emptied
\* (the fields default to ""), or filled in again, or with the other
\* provider selected.  The registered API keeps the configuration it was
\* set up with until the reload.
UpdateOptions(e) ==
    /\ RequiresCredential(stored[e].tool)
    /\ \/ stored' = [stored EXCEPT ![e].cred = ~@]
       \/ stored' = [stored EXCEPT ![e].tool = OtherProvider(@)]
    /\ UNCHANGED <<now, apis, inv, calls>>
    /\ UNCHANGED hassVars

\* A search entry with its credential and a financial entry.
ReloadSetups ==
    {[e1 |-> KeyConfig(t, "concise"), e5 |-> c] :
        t \in {"brave_image", "searxng_web"}, c \in FinConfigs}

\* The state after setup_llm_api ran for both entries.
InitReload ==
    /\ now = 0
    /\ domain = TRUE
    /\ hasCache = TRUE
    /\ hasEntries = TRUE
    /\ cache = EmptyMap
    /\ stored \in ReloadSetups
    /\ entries = stored
    /\ apis = [t \in {ToolType(stored[e].tool) : e \in DOMAIN stored} |->
                  LET e == CHOOSE x \in DOMAIN stored :
                               ToolType(stored[x].tool) = t
                  IN [entry |-> e, cfg |-> stored[e]]]
    /\ inv = [i \in {"i1"} |-> IdleInvocation]
    /\ calls = 0

\* A call of the search tool that is registered.
SearchCall(i) ==
    \E type \in DOMAIN apis \ {"financial"} : \E a \in ArgsOf(type) :
        StartCall(i, type, a.query, a.explicit, a.hint)

NextReload ==
    \/ UpdateOptions("e1")
    \/ CleanupLlmApi("e1")
    \/ SetupLlmApi("e1")
    \/ SearchCall("i1")
    \/ \E ans \in Answers : SearchReturn("i1", ans)
    \/ FinCall("i1")
    \/ FinResume("i1")

SpecReload == InitReload /\ [][NextReload]_vars

\* The invocation runs on a configuration without its required API key or
\* server URL.
MissingCredential(r) ==
    /\ r.pc # "idle"
    /\ RequiresCredential(r.tool)
    /\ ~r.cfg.cred

CurrencyQuery(r) ==
    /\ r.query_type = "currency"
    /\ r.pc = "done"
    /\ r.outcome = "returned"

\* C21: a currency query whose target currency is not in the fetched rate
\* table returns the error response and no conversion result; one whose
\* from_currency or to_currency is empty returns the error response with
\* no upstream request.
C21_CurrencyErrors ==
    \A i \in DOMAIN inv :
        CurrencyQuery(inv[i]) =>
            /\ inv[i].to_currency \notin inv[i].rates =>
                  /\ inv[i].resp.fields = {"error"}
                  /\ inv[i].resp.query_type = ""
            /\ (inv[i].from_currency = <<>> \/ inv[i].to_currency = <<>>) =>
                  /\ inv[i].resp.fields = {"error"}
                  /\ inv[i].http = 0
                  /\ inv[i].requests = <<>>
            /\ "converted_amount" \in inv[i].resp.fields =>
                  /\ inv[i].requests = <<"finnhub_forex">>
                  /\ inv[i].to_currency \in inv[i].rates

\* The rate table of a 200 answer lacked the target currency and the
\* query ended in the error response.
C21_Witness ==
    \E i \in DOMAIN inv :
        /\ CurrencyQuery(inv[i])
        /\ inv[i].requests = <<"finnhub_forex">>
        /\ inv[i].rates = {<<"U", "S", "D">>}
        /\ inv[i].to_currency = <<"E", "U", "R">>
        /\ inv[i].fault = "no_rate"
        /\ inv[i].resp.fields = {"error"}

(***************************************************************************)
(* The two-stage video search.                                             *)
(***************************************************************************)
\* The first-stage search of a video call came back with at least one
\* item, the details request was issued and the call returned.
DetailsStageDone(r) ==
    /\ r.tool = "youtube"
    /\ r.pc = "done"
    /\ r.outcome = "returned"
    /\ r.http = 2
    /\ r.items # <<>>

\* C22: once the first-stage search of the video tool succeeded with at
\* least one item, the call returns a success response holding every
\* first-stage video, however the details request ends (200, non-200 or
\* a transport error); it never returns the error response.
C22_DetailsFailureTolerated ==
    \A i \in DOMAIN inv :
        DetailsStageDone(inv[i]) =>
            /\ "results" \in inv[i].resp.fields
            /\ "error" \notin inv[i].resp.fields
            /\ Len(inv[i].resp.results) = Len(inv[i].items)
            /\ \A k \in 1..Len(inv[i].items) :
                  inv[i].resp.results[k].id = inv[i].items[k]

(***************************************************************************)
(* Upstream entries without a usable resource URL.                         *)
(***************************************************************************)
\* The resource URL of an upstream entry: an http URL, a missing or empty
\* one (read as ""), or one of another scheme.
MalformedRawItems == {"http://a", "", "data:a"}

MalformedAnswers ==
    {[status |-> "ok", items |-> l] :
        l \in UNION {[1..n -> MalformedRawItems] : n \in 0..MaxItems}}
      \cup {[status |-> "http_error", items |-> <<>>]}

\* Each image and web adapter, with its credential.
ItemConfigs == {KeyConfig(t, "concise") : t \in ImageTools \cup WebTools}

\* The state setup_llm_api leaves behind for entry e1.
InitItems ==
    /\ now = 0
    /\ domain = TRUE
    /\ hasCache = TRUE
    /\ hasEntries = TRUE
    /\ cache = EmptyMap
    /\ stored \in [{"e1"} -> ItemConfigs]
    /\ entries = stored
    /\ apis = [t \in {ToolType(stored["e1"].tool)} |->
                  [entry |-> "e1", cfg |-> stored["e1"]]]
    /\ inv = [i \in {"i1"} |-> IdleInvocation]
    /\ calls = 0

NextItems ==
    \/ SearchCall("i1")
    \/ \E ans \in MalformedAnswers : SearchReturn("i1", ans)

SpecItems == InitItems /\ [][NextItems]_vars

\* C23: every item of a returned response and of a cached payload of the
\* image and web tools has a resource URL that starts with "http".
C23_ResultsHaveHttpUrl ==
    /\ \A i \in DOMAIN inv :
          \A k \in 1..Len(inv[i].resp.results) :
              StartsWithHttp(inv[i].resp.results[k].url)
    /\ \A key \in DOMAIN cache :
          \A k \in 1..Len(cache[key].data.list) :
              StartsWithHttp(cache[key].data.list[k].url)

\* The same for the SearXNG adapters alone, which do skip such entries.
SearXNGResultsHaveHttpUrl ==
    \A i \in DOMAIN inv :
        inv[i].tool \in {"searxng_image", "searxng_web"} =>
            \A k \in 1..Len(inv[i].resp.results) :
                StartsWithHttp(inv[i].resp.results[k].url)

(***************************************************************************)
(* weather_forecast.py: the weather tool.  It reads entity states and      *)
(* calls the weather.get_forecasts service; it uses no cache.              *)
(***************************************************************************)
RANGE_OPTIONS ==
    <<"week", "today", "tomorrow", "monday", "tuesday", "wednesday",
      "thursday", "friday", "saturday", "sunday">>

DAY_NAMES ==
    <<"monday", "tuesday", "wednesday", "thursday", "friday", "saturday",
      "sunday">>

\* seq.index(x), for x in seq
Index(seq, x) == (CHOOSE k \in 1..Len(seq) : seq[k] = x) - 1

InSeq(seq, x) == \E k \in 1..Len(seq) : seq[k] = x

\* date.weekday(): Monday is 0; ordinal 1 (0001-01-01) is a Monday.
Weekday(d) == (d + 6) % 7

\* The weekday branch without `if days_ahead == 0: days_ahead = 7`.
ResolveTargetDateSameDay(range_value, today) ==
    IF range_value = "week" THEN NoDate
    ELSE IF range_value = "today" THEN SomeDate(today)
    ELSE IF range_value = "tomorrow" THEN SomeDate(today + 1)
    ELSE IF InSeq(DAY_NAMES, range_value)
    THEN SomeDate(today
                  + ((Index(DAY_NAMES, range_value) - Weekday(today)) % 7))
    ELSE SomeDate(today)

\* WeatherForecastTool._resolve_target_date
ResolveTargetDate(range_value, today) ==
    IF range_value = "week" THEN NoDate
    ELSE IF range_value = "today" THEN SomeDate(today)
    ELSE IF range_value = "tomorrow" THEN SomeDate(today + 1)
    ELSE IF InSeq(DAY_NAMES, range_value)
    THEN LET target_weekday == Index(DAY_NAMES, range_value)
             days_ahead == (target_weekday - Weekday(today)) % 7
         IN SomeDate(today + (IF days_ahead = 0 THEN 7 ELSE days_ahead))
    ELSE SomeDate(today)

\* WeatherEntityFeature, the bits of supported_features.
FORECAST_DAILY == 1
FORECAST_HOURLY == 2
FORECAST_TWICE_DAILY == 4

\* _entity_supports: the state exists and has the feature's bit set.
EntitySupports(state, feature) ==
    /\ state.exists
    /\ (state.features \div feature) % 2 = 1

\* The choice of forecast with twice_daily tried before hourly.
SelectForecastTwiceFirst(range_value, hourly_entity, hourly_state, daily_state) ==
    IF range_value = "week" THEN "daily"
    ELSE IF EntitySupports(daily_state, FORECAST_TWICE_DAILY)
    THEN "twice_daily"
    ELSE IF hourly_entity /\ EntitySupports(hourly_state, FORECAST_HOURLY)
    THEN "hourly"
    ELSE "daily"

\* async_call, lines 122-150: the forecast type that is fetched.
\* hourly_entity tells whether an hourly entity is configured.
SelectForecast(range_value, hourly_entity, hourly_state, daily_state) ==
    LET use_hourly ==
            /\ range_value # "week"
            /\ hourly_entity
            /\ EntitySupports(hourly_state, FORECAST_HOURLY)
        supports_twice_daily ==
            EntitySupports(daily_state, FORECAST_TWICE_DAILY)
    IN
    IF use_hourly THEN "hourly"
    ELSE IF supports_twice_daily /\ range_value # "week" THEN "twice_daily"
    ELSE "daily"

\* _filter_by_date: a forecast entry is the date of its "datetime", 0 when
\* the key is missing or cannot be parsed.
FilterByDate(forecast_data, target_date) ==
    IF ~target_date.some THEN forecast_data
    ELSE SelectSeq(forecast_data, LAMBDA e : e # 0 /\ e = target_date.date)

\* Lines 166-180: the response; icon tells whether the first entry's
\* condition has an icon.
WeatherResponse(forecast_type, icon) ==
    [NoResp EXCEPT !.fields = {"source", "range", "forecast_type",
                               "forecast", "instruction"}
                              \cup (IF icon THEN {"condition_icon"}
                                    ELSE {}),
                   !.forecast_type = forecast_type]

\* Lines 152-157.
WeatherEmptyResponse ==
    [NoResp EXCEPT !.fields = {"source", "range", "message"}]

\* config of a weather entry: cred tells whether daily_weather_entity is
\* set, hourly whether hourly_weather_entity is.
WeatherConfigs ==
    [tool : {"weather"}, num : {Num(2)}, ttl : {Num(1)}, cred : {TRUE},
     detail : {"concise"}, hourly : BOOLEAN]

EntityStates ==
    {NoState} \cup {[exists |-> TRUE, features |-> f] :
                        f \in {0, FORECAST_DAILY,
                               FORECAST_DAILY + FORECAST_HOURLY,
                               FORECAST_DAILY + FORECAST_TWICE_DAILY,
                               FORECAST_DAILY + FORECAST_HOURLY
                                   + FORECAST_TWICE_DAILY}}

Todays == 1..MaxToday

\* async_call up to the service call (lines 109-145).
WeatherStartCall(i, range_value, today, daily_state, hourly_state) ==
    /\ inv[i].pc \in {"idle", "done"}
    /\ calls < MaxCalls
    /\ calls' = calls + 1
    /\ "weather" \in DOMAIN apis
    /\ LET cfg == apis["weather"].cfg
           r0 == [IdleInvocation EXCEPT !.tool = cfg.tool, !.cfg = cfg,
                                        !.wx.range = range_value,
                                        !.wx.today = today]
       IN
       IF ~cfg.cred
       THEN inv' = [inv EXCEPT ![i] = Returned(r0, ErrorResponse)]
       ELSE LET type == SelectForecast(range_value, cfg.hourly, hourly_state,
                                       daily_state)
                entity == IF type = "hourly" THEN "hourly_entity"
                          ELSE "daily_entity"
            IN inv' = [inv EXCEPT ![i] =
                  [r0 EXCEPT !.pc = "forecast", !.adapter = TRUE,
                             !.wx.target = ResolveTargetDate(range_value,
                                                             today),
                             !.wx.daily_state = daily_state,
                             !.wx.hourly_state = hourly_state,
                             !.wx.fetches =
                                 <<[entity |-> entity, type |-> type]>>]]
    /\ UNCHANGED <<now, apis, stored>>
    /\ UNCHANGED hassVars

\* Lines 135-196: the service call comes back with the list raw, or
\* raises.
WeatherForecastReturn(i, ok, raw, icon) ==
    /\ inv[i].pc = "forecast"
    /\ LET r == inv[i]
           type == r.wx.fetches[1].type
           kept == IF type = "daily" /\ r.wx.range = "week"
                   THEN SubSeq(raw, 1, Min(7, Len(raw)))
                   ELSE FilterByDate(raw, r.wx.target)
       IN
       IF ~ok
       THEN inv' = [inv EXCEPT ![i] = Failed(r, "upstream")]
       ELSE IF kept = <<>>
       THEN inv' = [inv EXCEPT ![i] = Returned(r, WeatherEmptyResponse)]
       ELSE inv' = [inv EXCEPT ![i] =
                       Returned([r EXCEPT !.wx.entries = kept],
                                WeatherResponse(type, icon))]
    /\ UNCHANGED <<now, apis, calls, stored>>
    /\ UNCHANGED hassVars

\* The tool keeps nothing from one call to the next: one call is followed
\* from its start to its end.
WeatherCall(i) ==
    /\ inv[i].pc = "idle"
    /\ \E k \in 1..Len(RANGE_OPTIONS), today \in Todays,
          daily_state \in EntityStates, hourly_state \in EntityStates :
           WeatherStartCall(i, RANGE_OPTIONS[k], today, daily_state,
                            hourly_state)

\* The forecast lists a service answer may hold for the call: entries of
\* today, of tomorrow, of the target date, and entries without a date.
RawForecasts(r) ==
    LET dates == {0, r.wx.today, r.wx.today + 1, r.wx.target.date}
    IN UNION {[1..n -> dates] : n \in 0..MaxItems}

WeatherResume(i) ==
    \E ok \in BOOLEAN, icon \in BOOLEAN : \E raw \in RawForecasts(inv[i]) :
        WeatherForecastReturn(i, ok, raw, icon)

\* The state after setup_llm_api of a weather entry.
InitWeather ==
    /\ now = 0
    /\ domain = TRUE
    /\ hasCache = TRUE
    /\ hasEntries = TRUE
    /\ cache = EmptyMap
    /\ stored \in [{"e1"} -> WeatherConfigs]
    /\ entries = stored
    /\ apis = [t \in {"weather"} |-> [entry |-> "e1", cfg |-> stored["e1"]]]
    /\ inv = [i \in {"i1"} |-> IdleInvocation]
    /\ calls = 0

NextWeather == WeatherCall("i1") \/ WeatherResume("i1")

SpecWeather == InitWeather /\ [][NextWeather]_vars

\* A weather call that got past the entity check.
WeatherQuery(r) == r.tool = "weather" /\ r.pc \in {"forecast", "done"}

\* C24: for every current date and every weekday name given as range the
\* target date falls on that weekday and lies 1 to 7 days after today;
\* when the weekday is today's the target is exactly 7 days ahead.
C24_WeekdayIsNextOccurrence ==
    \A i \in DOMAIN inv :
        (WeatherQuery(inv[i]) /\ InSeq(DAY_NAMES, inv[i].wx.range)) =>
            LET w == inv[i].wx IN
            /\ w.target.some
            /\ DAY_NAMES[Weekday(w.target.date) + 1] = w.range
            /\ w.target.date - w.today \in 1..7
            /\ DAY_NAMES[Weekday(w.today) + 1] = w.range =>
                  w.target.date = w.today + 7

\* "monday" was asked for on a Monday and resolved to the Monday after.
C24_Witness ==
    \E i \in DOMAIN inv :
        /\ WeatherQuery(inv[i])
        /\ inv[i].wx.range = "monday"
        /\ Weekday(inv[i].wx.today) = 0
        /\ inv[i].wx.target = SomeDate(inv[i].wx.today + 7)

\* The forecast type the rule of C25 names for a call.
ExpectedForecast(r) ==
    IF r.wx.range = "week" THEN "daily"
    ELSE IF r.cfg.hourly /\ r.wx.hourly_state.exists
            /\ r.wx.hourly_state.features \in
                   {FORECAST_HOURLY, FORECAST_DAILY + FORECAST_HOURLY,
                    FORECAST_DAILY + FORECAST_HOURLY + FORECAST_TWICE_DAILY}
    THEN "hourly"
    ELSE IF r.wx.daily_state.exists
            /\ r.wx.daily_state.features \in
                   {FORECAST_DAILY + FORECAST_TWICE_DAILY,
                    FORECAST_DAILY + FORECAST_HOURLY + FORECAST_TWICE_DAILY}
    THEN "twice_daily"
    ELSE "daily"

\* C25: a weather call fetches exactly one forecast: daily when range is
\* "week", otherwise hourly if an hourly entity is configured and supports
\* it, otherwise twice_daily if the daily entity supports it, otherwise
\* daily; forecast_type in the response is the type fetched.
C25_OneForecastOfFinestType ==
    \A i \in DOMAIN inv :
        WeatherQuery(inv[i]) =>
            /\ Len(inv[i].wx.fetches) = 1
            /\ inv[i].wx.fetches[1].type = ExpectedForecast(inv[i])
            /\ inv[i].wx.fetches[1].entity =
                  (IF ExpectedForecast(inv[i]) = "hourly"
                   THEN "hourly_entity" ELSE "daily_entity")
            /\ "forecast_type" \in inv[i].resp.fields =>
                  inv[i].resp.forecast_type = inv[i].wx.fetches[1].type

\* Both hourly and twice-daily forecasts were on offer for tomorrow: the
\* hourly one was fetched and named in the response.
C25_Witness ==
    \E i \in DOMAIN inv :
        /\ WeatherQuery(inv[i])
        /\ inv[i].pc = "done"
        /\ inv[i].wx.range = "tomorrow"
        /\ inv[i].cfg.hourly
        /\ EntitySupports(inv[i].wx.hourly_state, FORECAST_HOURLY)
        /\ EntitySupports(inv[i].wx.daily_state, FORECAST_TWICE_DAILY)
        /\ inv[i].wx.fetches = <<[entity |-> "hourly_entity",
                                  type |-> "hourly"]>>
        /\ inv[i].resp.forecast_type = "hourly"

(***************************************************************************)
(* The shared state under hass.data[DOMAIN] across setup, cleanup and      *)
(* calls.                                                                  *)
(***************************************************************************)
\* C26: whenever hass.data[DOMAIN] exists it holds both the "cache" and
\* the "entries" map, under any interleaving of setup_llm_api,
\* cleanup_llm_api and invocations still in flight at the unload.
C26_DomainHasBothMaps == domain => (hasCache /\ hasEntries)

\* C27: a result cached under one provider configuration is never
\* returned to a call made after the entry was reconfigured with another
\* provider and reloaded; a hit on the entry the previous call stored is
\* a hit under the provider that stored it.
C27_NoHitAcrossReconfiguration ==
    [][\A i \in DOMAIN inv :
          (/\ Starts(i)
           /\ inv'[i].hit
           /\ inv[i].wrote
           /\ inv[i].key = inv'[i].key) =>
              inv'[i].cfg.tool = inv[i].cfg.tool]_vars

(***************************************************************************)
(* Two config entries, set up and unloaded in any order while calls of     *)
(* their tools run.                                                        *)
(***************************************************************************)
LifecycleSetups ==
    {[e1 |-> KeyConfig("brave_image", "concise"),
      e2 |-> KeyConfig(t, "concise")] : t \in {"brave_web", "searxng_web"}}

\* The state after async_setup: no entry is set up yet.
InitLifecycle ==
    /\ now = 0
    /\ domain = TRUE
    /\ hasCache = TRUE
    /\ hasEntries = TRUE
    /\ cache = EmptyMap
    /\ entries = EmptyMap
    /\ apis = EmptyMap
    /\ stored \in LifecycleSetups
    /\ inv = [i \in {"i1"} |-> IdleInvocation]
    /\ calls = 0

NextLifecycle ==
    \/ SetupLlmApi("e1")
    \/ SetupLlmApi("e2")
    \/ CleanupLlmApi("e1")
    \/ CleanupLlmApi("e2")
    \/ SearchCall("i1")
    \/ \E ans \in Answers : SearchReturn("i1", ans)

SpecLifecycle == InitLifecycle /\ [][NextLifecycle]_vars

\* The cleanup of entry e in this step removes the last recorded entry.
RemovesLast(e) == DOMAIN entries \subseteq {e}

\* This step is cleanup_llm_api for a recorded entry e.
CleansUp(e) ==
    /\ domain
    /\ hasEntries
    /\ e \in DOMAIN entries
    /\ e \notin DOMAIN entries'
    /\ inv' = inv

StoresFreshAnswer(i, k) ==
    /\ inv[i].pc \in Suspended
    /\ inv'[i].wrote
    /\ inv'[i].key = k

Registered == {apis[t].entry : t \in DOMAIN apis}

\* C30: after any sequence of setup_llm_api and cleanup_llm_api calls the
\* registered APIs are exactly those of the entry ids recorded in
\* hass.data[DOMAIN]["entries"], an entry is recorded only for an enabled
\* configuration, and a cleanup of an unrecorded id unregisters nothing.
C30_RegisteredIffRecorded ==
    /\ Registered = DOMAIN entries
    /\ \A e \in DOMAIN entries : ApiEnabled(entries[e])

====
